---- MODULE Spec2Model ----
(***************************************************************************)
(* Hand Cricket cloud functions: createNewUser (the Firestore transaction  *)
(* implementation and the Realtime Database two-step implementation),      *)
(* quickMatch and cancelQuickMatch, as a state machine over the users,     *)
(* usernames, quick_matchmaking_queue and presence keyspaces.              *)
(***************************************************************************)
EXTENDS Integers, Sequences, FiniteSets, Bags, TLC

(***************************************************************************)
(* Bounds of the model                                                     *)
(***************************************************************************)
\* number of request slots (invocations that can be in flight together)
NCalls == 2
\* last value the server clock may reach
MaxClock == 3
\* number of document ids of the items collection
MaxItems == 3
\* largest createdAt of an item, in ms
MaxCreated == 2
\* largest limit a listItems request asks for
MaxLimit == 3

(***************************************************************************)
(* Program constants                                                       *)
(***************************************************************************)
maxRetries == 3
retryDelay == 500
deleteMaxRetries == 10
retryDelayMs == 500
\* /^[a-z][a-z0-9_]{7,14}$/ : bounds of the repetition after the first letter
RestMin == 7
RestMax == 14
\* config/index.js, environment "local"
DEFAULT_PAGE_SIZE == 10
MAX_PAGE_SIZE == 50
CURSOR_TTL_MS == 600000

Calls == 1..NCalls
Uids == {"u1", "u2"}

(***************************************************************************)
(* Characters and strings                                                  *)
(***************************************************************************)
Lower == {"a","b","c","d","e","f","g","h","i","j","k","l","m",
          "n","o","p","q","r","s","t","u","v","w","x","y","z"}
Digit == {"0","1","2","3","4","5","6","7","8","9"}
Whitespace == {" ", "\t", "\n"}

Strings ==
  {"testuser123",
   "player_one",
   " testuser123 \n",
   "short",
   "testuse",
   "thisusernameistoolong",
   "testuser12345678",
   "_testuser",
   "123testuser",
   "TestUser123",
   "test-user",
   "test user",
   "  ab\t",
   "",
   "ab",
   "Transaction was aborted",
   "Precondition failed",
   "Service unavailable",
   "Permission denied",
   "too many concurrent edits",
   "document is locked",
   "Not found",
   "Unexpected error",
   "concurrent",
   "locked"}

\* the characters of each string of the model
Chars(s) ==
  CASE s = "testuser123" -> <<"t","e","s","t","u","s","e","r","1","2","3">>
    [] s = "player_one" -> <<"p","l","a","y","e","r","_","o","n","e">>
    [] s = " testuser123 \n" -> <<" ","t","e","s","t","u","s","e","r","1","2","3"," ","\n">>
    [] s = "short" -> <<"s","h","o","r","t">>
    [] s = "testuse" -> <<"t","e","s","t","u","s","e">>
    [] s = "thisusernameistoolong" -> <<"t","h","i","s","u","s","e","r","n","a","m","e","i","s","t","o","o","l","o","n","g">>
    [] s = "testuser12345678" -> <<"t","e","s","t","u","s","e","r","1","2","3","4","5","6","7","8">>
    [] s = "_testuser" -> <<"_","t","e","s","t","u","s","e","r">>
    [] s = "123testuser" -> <<"1","2","3","t","e","s","t","u","s","e","r">>
    [] s = "TestUser123" -> <<"T","e","s","t","U","s","e","r","1","2","3">>
    [] s = "test-user" -> <<"t","e","s","t","-","u","s","e","r">>
    [] s = "test user" -> <<"t","e","s","t"," ","u","s","e","r">>
    [] s = "  ab\t" -> <<" "," ","a","b","\t">>
    [] s = "" -> <<>>
    [] s = "ab" -> <<"a","b">>
    [] s = "Transaction was aborted" -> <<"T","r","a","n","s","a","c","t","i","o","n"," ","w","a","s"," ","a","b","o","r","t","e","d">>
    [] s = "Precondition failed" -> <<"P","r","e","c","o","n","d","i","t","i","o","n"," ","f","a","i","l","e","d">>
    [] s = "Service unavailable" -> <<"S","e","r","v","i","c","e"," ","u","n","a","v","a","i","l","a","b","l","e">>
    [] s = "Permission denied" -> <<"P","e","r","m","i","s","s","i","o","n"," ","d","e","n","i","e","d">>
    [] s = "too many concurrent edits" -> <<"t","o","o"," ","m","a","n","y"," ","c","o","n","c","u","r","r","e","n","t"," ","e","d","i","t","s">>
    [] s = "document is locked" -> <<"d","o","c","u","m","e","n","t"," ","i","s"," ","l","o","c","k","e","d">>
    [] s = "Not found" -> <<"N","o","t"," ","f","o","u","n","d">>
    [] s = "Unexpected error" -> <<"U","n","e","x","p","e","c","t","e","d"," ","e","r","r","o","r">>
    [] s = "concurrent" -> <<"c","o","n","c","u","r","r","e","n","t">>
    [] s = "locked" -> <<"l","o","c","k","e","d">>

\* the string with these characters
Str(cs) == CHOOSE s \in Strings : Chars(s) = cs

RECURSIVE TrimStart(_)
TrimStart(cs) ==
  IF Len(cs) > 0 /\ Head(cs) \in Whitespace THEN TrimStart(Tail(cs)) ELSE cs

RECURSIVE TrimEnd(_)
TrimEnd(cs) ==
  IF Len(cs) > 0 /\ cs[Len(cs)] \in Whitespace
    THEN TrimEnd(SubSeq(cs, 1, Len(cs) - 1))
    ELSE cs

\* String.prototype.trim
Trim(s) == Str(TrimEnd(TrimStart(Chars(s))))

\* Variant: the repetition accepts one character more, {7,15}
usernameRegexOffByOne(s) ==
  LET cs == Chars(s)
  IN /\ Len(cs) >= 1
     /\ Len(cs) - 1 >= RestMin
     /\ Len(cs) - 1 <= RestMax + 1
     /\ cs[1] \in Lower
     /\ \A i \in 2..Len(cs) : cs[i] \in Lower \cup Digit \cup {"_"}

\* /^[a-z][a-z0-9_]{7,14}$/.test(s)
usernameRegex(s) ==
  LET cs == Chars(s)
  IN /\ Len(cs) >= 1
     /\ Len(cs) - 1 >= RestMin
     /\ Len(cs) - 1 <= RestMax
     /\ cs[1] \in Lower
     /\ \A i \in 2..Len(cs) : cs[i] \in Lower \cup Digit \cup {"_"}

(***************************************************************************)
(* Request inputs                                                          *)
(***************************************************************************)
testuser123 == "testuser123"
player_one == "player_one"
PaddedName == " testuser123 \n"
TooShort == "short"
SevenChars == "testuse"
TooLong == "thisusernameistoolong"
SixteenChars == "testuser12345678"
LeadingUnderscore == "_testuser"
LeadingDigit == "123testuser"
Uppercase == "TestUser123"
BadChar == "test-user"
InnerSpace == "test user"
PaddedShort == "  ab\t"
Empty == ""

StringData(s) == [type |-> "string", value |-> s]
\* data = {} (username missing), data = {username: 12345}, data = null
MissingData == [type |-> "undefined", value |-> ""]
NumberData == [type |-> "number", value |-> ""]
NullData == [type |-> "null", value |-> ""]

ValidStrings == {testuser123, player_one, PaddedName}
InvalidStrings == {TooShort, SevenChars, TooLong, SixteenChars, LeadingUnderscore,
                   LeadingDigit, Uppercase, BadChar, InnerSpace, PaddedShort, Empty}
AllData == {StringData(s) : s \in ValidStrings \cup InvalidStrings}
             \cup {MissingData, NumberData, NullData}

\* the keys the usernames keyspace can get
Names == {Trim(s) : s \in ValidStrings}

\* context.auth: null, {} (no uid), or {uid}
NoAuth == "null"
NoUid == "{}"
AuthValues == {NoAuth, NoUid} \cup Uids
\* what admin.auth().getUser(uid) does for this request
Lookups == {"throws", "unverified", "verified"}

Handlers == {"createNewUser", "quickMatch", "cancelQuickMatch"}

Request(h, app, auth, lookup, data) ==
  [handler |-> h, app |-> app, auth |-> auth, lookup |-> lookup, data |-> data]

\* the request contexts: every combination of App Check token, auth and what
\* the user-record lookup does
Contexts == [app : BOOLEAN, auth : AuthValues, lookup : Lookups]

\* every request of the input universe: each username under a context of a
\* verified caller, and each context with a well-formed, a malformed and a
\* missing username
AllRequests ==
  {Request("createNewUser", TRUE, u, "verified", data) : u \in Uids, data \in AllData}
  \cup
  {Request("createNewUser", x.app, x.auth, x.lookup, data) :
     x \in Contexts, data \in {StringData(PaddedName), StringData(TooShort), MissingData}}
  \cup
  {Request(h, x.app, x.auth, x.lookup, NullData) :
     h \in {"quickMatch", "cancelQuickMatch"}, x \in Contexts}

\* quickMatch requests of verified callers
JoinRequests ==
  {Request("quickMatch", TRUE, u, "verified", NullData) : u \in Uids}

\* requests of verified callers with well-formed usernames
CoreRequests ==
  {Request("createNewUser", TRUE, u, "verified", StringData(s)) :
     u \in Uids, s \in {PaddedName, player_one}}

\* userRecord.email
Email(uid) == IF uid = "u1" THEN "u1@example.com" ELSE "u2@example.com"

(***************************************************************************)
(* Responses                                                               *)
(***************************************************************************)
\* a response: the code and message of the HttpsError thrown (arg is the value
\* interpolated into a message template), or code "ok" and the body returned
NoBody == [success |-> FALSE]
HttpsErrorWith(code, message, arg) ==
  [code |-> code, message |-> message, arg |-> arg, body |-> NoBody]
HttpsError(code, message) == HttpsErrorWith(code, message, "")
Ok(body) == [code |-> "ok", message |-> "", arg |-> "", body |-> body]
NoResponse == [code |-> "none", message |-> "", arg |-> "", body |-> NoBody]
Pass == [code |-> "pass", message |-> "", arg |-> "", body |-> NoBody]
\* Variant: the store's error reaches the caller as it is
UnexpectedRaw == HttpsError("unavailable", "Service unavailable")

\* the top-level catch of every handler
Unexpected == HttpsError("internal", "An unexpected error occurred")

(***************************************************************************)
(* The authorization gate and the username validation (pure)               *)
(***************************************************************************)
HasUid(r) == r.auth \in Uids

\* Variant: the gate without its App Check step
validateAuthAndEmailNoAppCheck(r) ==
  IF ~HasUid(r)
    THEN HttpsError("unauthenticated", "Authentication required")
  ELSE IF r.lookup = "throws"
    THEN HttpsError("internal", "Failed to retrieve user information")
  ELSE IF r.lookup = "unverified"
    THEN HttpsError("failed-precondition", "use a verified email address to continue")
  ELSE Pass

\* utils/auth.js validateAuthAndEmail: App Check, auth, getUser, emailVerified
validateAuthAndEmail(r) ==
  IF ~r.app
    THEN HttpsError("failed-precondition", "App Check verification failed")
  ELSE IF ~HasUid(r)
    THEN HttpsError("unauthenticated", "Authentication required")
  ELSE IF r.lookup = "throws"
    THEN HttpsError("internal", "Failed to retrieve user information")
  ELSE IF r.lookup = "unverified"
    THEN HttpsError("failed-precondition", "use a verified email address to continue")
  ELSE Pass

\* createNewUser on Firestore, steps 1-3 (the same checks, inlined)
firestoreGate(r) ==
  IF ~r.app
    THEN HttpsError("failed-precondition", "App Check verification failed")
  ELSE IF ~HasUid(r)
    THEN HttpsError("unauthenticated", "Authentication required")
  ELSE IF r.lookup = "throws"
    THEN HttpsError("internal", "Failed to retrieve user information")
  ELSE IF r.lookup = "unverified"
    THEN HttpsError("failed-precondition", "use a verified email address to continue")
  ELSE Pass

\* createNewUser on the Realtime Database, steps 1-2 (no App Check)
rtdbGate(r) ==
  IF ~HasUid(r)
    THEN HttpsError("unauthenticated", "Authentication required")
  ELSE IF r.lookup = "throws"
    THEN HttpsError("internal", "Failed to retrieve user information")
  ELSE IF r.lookup = "unverified"
    THEN HttpsError("failed-precondition", "use a verified email address to continue")
  ELSE Pass

\* Variant: the validation without its typeof check (a missing username is
\* judged by the format rules)
validateUsernameNoType(data) ==
  IF ~usernameRegex(Trim(data.value))
    THEN HttpsError("invalid-argument", "username rules failed")
    ELSE Pass

\* "Validate username input" and "Validate username format" of createNewUser
validateUsername(data) ==
  IF data.type # "string"
    THEN HttpsError("invalid-argument", "username is required and must be a string")
  ELSE IF ~usernameRegex(Trim(data.value))
    THEN HttpsError("invalid-argument", "username rules failed")
  ELSE Pass

(***************************************************************************)
(* State                                                                   *)
(***************************************************************************)
VARIABLES
  strategy,   \* which createNewUser is deployed: "A" (Realtime Database) or "B" (Firestore)
  component,  \* whose handlers this run calls: "identity" or "queue"
  users,      \* users/{uid}
  usernames,  \* usernames/{username}
  queue,      \* quick_matchmaking_queue/{uid}
  presence,   \* presence/{uid}
  clock,      \* the server clock: the last timestamp handed out
  call,       \* the invocation in each request slot
  succ,       \* history: the bag of <<uid, username>> for which createNewUser returned success
  pager       \* a client of listItems walking the items collection page by page

vars == <<strategy, component, users, usernames, queue, presence, clock, call, succ,
          pager>>

\* no client is listing
NoPager == [pc |-> "none"]

NoUser == [exists |-> FALSE, created_at |-> 0, username |-> "", email_address |-> ""]
NoUsername == [exists |-> FALSE, uid |-> "", created_at |-> 0]
NoEntry == [exists |-> FALSE, uid |-> "", created_at |-> 0, status |-> ""]

NoRequest == Request("none", FALSE, NoAuth, "verified", NullData)

\* A free request slot.  req and resp are the request and the response; uid,
\* username, attempt, createdTimestamp and deleted are the handler's locals.
\* History of the invocation: member (at invocation the caller had a users
\* record), taken (at invocation the username had a record), late (at invocation another caller already had success with this
\* username), touched (the store calls issued so far, as
\* <<kind, keyspace>>), faults (one of its store calls rejected), last (what
\* its latest store call did: "returned" or "rejected"), afterRollback (at
\* invocation no other invocation was in flight and a call of another caller
\* had given this username back), and for the retry
\* loop in progress: txns, reads and deletes (the transaction(), get() and
\* delete() calls it issued), missed (the attempts whose re-check rejected,
\* so that no transaction was issued), sleeps and waited (its delays and
\* their total in ms), error (the error deleteWithRetry caught last).
IdleCall ==
  [pc |-> "idle", req |-> NoRequest, uid |-> "", username |-> "",
   attempt |-> 0, createdTimestamp |-> 0, deleted |-> "", resp |-> NoResponse,
   member |-> FALSE, taken |-> FALSE, late |-> FALSE, touched |-> {}, faults |-> FALSE,
   last |-> "none", afterRollback |-> FALSE, txns |-> 0, reads |-> 0,
   deletes |-> 0, missed |-> 0, sleeps |-> 0, waited |-> 0,
   error |-> [code |-> "", message |-> ""]]

\* the identity store before a run of the queue handlers: empty, or holding
\* the identity that caller u1 registered earlier
NoUsers == [u \in Uids |-> NoUser]
NoUsernames == [n \in Names |-> NoUsername]
RegisteredUsers ==
  [NoUsers EXCEPT !["u1"] = [exists |-> TRUE, created_at |-> 0,
                             username |-> player_one,
                             email_address |-> Email("u1")]]
RegisteredUsernames ==
  [NoUsernames EXCEPT ![player_one] = [exists |-> TRUE, uid |-> "u1", created_at |-> 0]]

\* A run is one of createNewUser, under either implementation and from an
\* empty identity store, or one of the queue handlers, which are the same
\* under both implementations (one is kept) and start with or without a
\* registered caller.
Init ==
  /\ strategy \in {"A", "B"}
  /\ component \in {"identity", "queue"}
  /\ component = "queue" => strategy = "B"
  /\ \/ users = NoUsers /\ usernames = NoUsernames
     \/ /\ component = "queue"
        /\ users = RegisteredUsers /\ usernames = RegisteredUsernames
  /\ queue = [u \in Uids |-> NoEntry]
  /\ presence = [u \in Uids |-> FALSE]
  /\ clock = 0
  /\ call = [c \in Calls |-> IdleCall]
  /\ succ = EmptyBag
  /\ pager = NoPager

\* the handler ends by throwing the HttpsError e
Throw(rec, e) == [rec EXCEPT !.pc = "done", !.resp = e]
\* the handler ends by returning body
Return(rec, body) == [rec EXCEPT !.pc = "done", !.resp = Ok(body)]

\* the handler issues a store call of this kind on this keyspace
Touch(rec, kind, keyspace) ==
  [rec EXCEPT !.touched = @ \cup {<<kind, keyspace>>}, !.last = "returned"]

\* a store call of the handler rejects (throws); it has no effect on the store
Reject(rec) == [rec EXCEPT !.faults = TRUE, !.last = "rejected"]

\* the handler waits ms milliseconds (a delay on the handling path: it touches
\* no keyspace, so it is taken together with the step before it)
Sleep(rec, ms) == [rec EXCEPT !.sleeps = @ + 1, !.waited = @ + ms]

Store == <<users, usernames, queue, presence, clock>>
Fixed == <<strategy, component, pager>>

(***************************************************************************)
(* Invocation: the gate and the input validation, which touch no keyspace  *)
(***************************************************************************)
ComponentOf(handler) == IF handler = "createNewUser" THEN "identity" ELSE "queue"

Gate(r) ==
  IF r.handler = "createNewUser"
    THEN IF strategy = "B" THEN firestoreGate(r) ELSE rtdbGate(r)
    ELSE validateAuthAndEmail(r)

\* another caller already got success for this username
TakenByOther(uid, username) ==
  \E a \in Uids : a # uid /\ BagIn(<<a, username>>, succ)

\* the call in slot a reserved its username, failed to create the users
\* record, and its usernameRef.remove() was served
RolledBack(a) ==
  /\ call[a].pc = "done"
  /\ call[a].resp = HttpsError("internal", "Something is Wrong")
  /\ call[a].last = "returned"

\* no invocation is in flight and a call of another caller has given this
\* username back
AfterRollback(uid, username) ==
  /\ \A e \in Calls : call[e].pc \in {"idle", "done"}
  /\ \E a \in Calls :
       RolledBack(a) /\ call[a].uid # uid /\ call[a].username = username

\* Variant: createNewUser goes to the username check without reading users/{uid}
BeginSkipUserRead(r) ==
  LET started == [IdleCall EXCEPT !.req = r]
      authed == [started EXCEPT !.uid = r.auth]
  IN IF Gate(r) # Pass THEN Throw(started, Gate(r))
     ELSE IF r.handler = "createNewUser"
       THEN IF validateUsername(r.data) # Pass
              THEN Throw(authed, validateUsername(r.data))
              ELSE [authed EXCEPT !.pc = IF strategy = "A" THEN "readUsername" ELSE "txn",
                                  !.attempt = 1,
                                  !.username = Trim(r.data.value),
                                  !.member = users[r.auth].exists,
                                  !.late = TakenByOther(r.auth, Trim(r.data.value))]
     ELSE IF r.handler = "quickMatch"
       THEN [authed EXCEPT !.pc = "readPresence"]
       ELSE [authed EXCEPT !.pc = "deleteRead", !.attempt = 1]

\* Variant: a failed user-record lookup is swallowed and the handler goes on
BeginLookupFailureIgnored(r) ==
  LET started == [IdleCall EXCEPT !.req = r]
      authed == [started EXCEPT !.uid = r.auth]
  IN IF Gate(r) # Pass /\ Gate(r).code # "internal" THEN Throw(started, Gate(r))
     ELSE IF r.handler = "createNewUser"
       THEN IF validateUsername(r.data) # Pass
              THEN Throw(authed, validateUsername(r.data))
              ELSE [authed EXCEPT !.pc = "readUser",
                                  !.username = Trim(r.data.value),
                                  !.member = users[r.auth].exists,
                                  !.late = TakenByOther(r.auth, Trim(r.data.value))]
     ELSE IF r.handler = "quickMatch"
       THEN [authed EXCEPT !.pc = "readPresence"]
       ELSE [authed EXCEPT !.pc = "deleteRead", !.attempt = 1]

\* the handler up to its first store call
Begin(r) ==
  LET started == [IdleCall EXCEPT !.req = r]
      authed == [started EXCEPT !.uid = r.auth]
  IN IF Gate(r) # Pass THEN Throw(started, Gate(r))
     ELSE IF r.handler = "createNewUser"
       THEN IF validateUsername(r.data) # Pass
              THEN Throw(authed, validateUsername(r.data))
              ELSE [authed EXCEPT !.pc = "readUser",
                                  !.username = Trim(r.data.value),
                                  !.member = users[r.auth].exists,
                                  !.taken =
                                     \E n \in Names :
                                       n = Trim(r.data.value) /\ usernames[n].exists,
                                  !.late = TakenByOther(r.auth, Trim(r.data.value)),
                                  !.afterRollback =
                                     AfterRollback(r.auth, Trim(r.data.value))]
     ELSE IF r.handler = "quickMatch"
       THEN [authed EXCEPT !.pc = "readPresence"]
       ELSE [authed EXCEPT !.pc = "deleteRead", !.attempt = 1]

\* request r arrives; slots are anonymous and taken in order
Invoke(c, r) ==
  /\ call[c].pc = "idle"
  /\ \A d \in Calls : d < c => call[d].pc # "idle"
  /\ ComponentOf(r.handler) = component
  /\ call' = [call EXCEPT ![c] = Begin(r)]
  /\ UNCHANGED <<Fixed, Store, succ>>

\* the response has been delivered; the slot is free again
Reset(c) ==
  /\ call[c].pc = "done"
  /\ call' = [call EXCEPT ![c] = IdleCall]
  /\ UNCHANGED <<Fixed, Store, succ>>

(***************************************************************************)
(* createNewUser on Firestore: one transaction over users/{uid} and        *)
(* usernames/{username}                                                    *)
(***************************************************************************)
\* Step 5: userRef.get()
ReadUserDoc(c) ==
  /\ strategy = "B"
  /\ call[c].pc = "readUser"
  /\ LET rec == Touch(call[c], "read", "users")
     IN \/ call' = [call EXCEPT ![c] = Throw(Reject(rec), Unexpected)]
        \/ call' = [call EXCEPT ![c] =
             IF users[rec.uid].exists
               THEN Throw(rec, HttpsError("already-exists", "user already exists"))
               ELSE [rec EXCEPT !.pc = "txn", !.attempt = 1]]
  /\ UNCHANGED <<Fixed, Store, succ>>

\* Variant: the retry loop gives up one attempt later
CatchTransactionOneMore(rec) ==
  IF rec.attempt = maxRetries + 1
    THEN Throw(rec, HttpsError("internal", "Something is wrong"))
    ELSE Sleep([rec EXCEPT !.attempt = @ + 1, !.pc = "txn"], retryDelay)

\* Variant: the next attempt starts without waiting
CatchTransactionNoSleep(rec) ==
  IF rec.attempt = maxRetries
    THEN Throw(rec, HttpsError("internal", "Something is wrong"))
    ELSE [rec EXCEPT !.attempt = @ + 1, !.pc = "txn"]

\* the catch block of the retry loop, for an error that is no HttpsError, and
\* the wait that opens the next attempt
CatchTransaction(rec) ==
  IF rec.attempt = maxRetries
    THEN Throw(rec, HttpsError("internal", "Something is wrong"))
    ELSE Sleep([rec EXCEPT !.attempt = @ + 1, !.pc = "txn"], retryDelay)

\* Variant: the username document without the owner's uid
UsernameDocNoUid(uid, timestamp) == [exists |-> TRUE, uid |-> "", created_at |-> timestamp]

\* the documents the transaction body sets
UsernameDoc(uid, timestamp) == [exists |-> TRUE, uid |-> uid, created_at |-> timestamp]
UserDoc(username, uid, timestamp) ==
  [exists |-> TRUE, created_at |-> timestamp, username |-> username,
   email_address |-> Email(uid)]

\* Variant: the body without its usernames/{username} check
TransactionBodyNoUsernameCheck(uid, username) ==
  IF users[uid].exists THEN "error" ELSE "commit"

\* Variant: the body without its users/{uid} check
TransactionBodyNoUserCheck(uid, username) ==
  IF usernames[username].exists THEN "taken" ELSE "commit"

\* Variant: the body throws a plain Error for a taken username
TransactionBodyPlainError(uid, username) ==
  IF users[uid].exists \/ usernames[username].exists THEN "error" ELSE "commit"

\* what the transaction body does on the snapshot it reads: "error" (plain
\* Error), "taken" (HttpsError already-exists) or "commit"
TransactionBody(uid, username) ==
  IF users[uid].exists THEN "error"
  ELSE IF usernames[username].exists THEN "taken"
  ELSE "commit"

\* db.runTransaction(...) of one attempt, and what follows it
\* Variant: a transaction that rejects has already written the username
RunTransactionPartial(c) ==
  /\ strategy = "B"
  /\ call[c].pc = "txn"
  /\ LET rec == [Touch(Touch(call[c], "txn", "users"), "txn", "usernames")
                   EXCEPT !.txns = @ + 1]
         uid == rec.uid
         username == rec.username
     IN \/ /\ call' = [call EXCEPT ![c] = CatchTransaction(Reject(rec))]
           /\ usernames' = [usernames EXCEPT ![username] = UsernameDoc(uid, clock)]
           /\ UNCHANGED <<users, queue, presence, clock, succ>>
        \/ /\ TransactionBody(uid, username) = "taken"
           /\ call' = [call EXCEPT ![c] =
                Throw(rec, HttpsErrorWith("already-exists",
                                          "username ${username} already taken", username))]
           /\ UNCHANGED <<Store, succ>>
        \/ /\ TransactionBody(uid, username) = "commit"
           /\ clock < MaxClock
           /\ clock' = clock + 1
           /\ usernames' = [usernames EXCEPT ![username] = UsernameDoc(uid, clock')]
           /\ users' = [users EXCEPT ![uid] = UserDoc(username, uid, clock')]
           /\ call' = [call EXCEPT ![c] = Return(rec, [success |-> TRUE])]
           /\ succ' = succ (+) SetToBag({<<uid, username>>})
           /\ UNCHANGED <<queue, presence>>
  /\ UNCHANGED Fixed

RunTransaction(c) ==
  /\ strategy = "B"
  /\ call[c].pc = "txn"
  /\ LET rec == [Touch(Touch(call[c], "txn", "users"), "txn", "usernames")
                   EXCEPT !.txns = @ + 1]
         uid == rec.uid
         username == rec.username
     IN \/ \* the transaction rejects (contention, unavailable): nothing is written
           /\ call' = [call EXCEPT ![c] = CatchTransaction(Reject(rec))]
           /\ UNCHANGED <<Store, succ>>
        \/ /\ TransactionBody(uid, username) = "error"
           /\ call' = [call EXCEPT ![c] = CatchTransaction(rec)]
           /\ UNCHANGED <<Store, succ>>
        \/ /\ TransactionBody(uid, username) = "taken"
           /\ call' = [call EXCEPT ![c] =
                Throw(rec, HttpsErrorWith("already-exists",
                                          "username ${username} already taken", username))]
           /\ UNCHANGED <<Store, succ>>
        \/ /\ TransactionBody(uid, username) = "commit"
           /\ clock < MaxClock
           /\ clock' = clock + 1
           /\ usernames' = [usernames EXCEPT ![username] = UsernameDoc(uid, clock')]
           /\ users' = [users EXCEPT ![uid] = UserDoc(username, uid, clock')]
           /\ call' = [call EXCEPT ![c] = Return(rec, [success |-> TRUE])]
           /\ succ' = succ (+) SetToBag({<<uid, username>>})
           /\ UNCHANGED <<queue, presence>>
  /\ UNCHANGED Fixed

(***************************************************************************)
(* createNewUser on the Realtime Database: create usernames/{username},    *)
(* then users/{uid}, each by a single-path transaction                     *)
(***************************************************************************)
\* Step 4: userRef.once('value')
ReadUserRef(c) ==
  /\ strategy = "A"
  /\ call[c].pc = "readUser"
  /\ LET rec == Touch(call[c], "read", "users")
     IN \/ call' = [call EXCEPT ![c] = Throw(Reject(rec), Unexpected)]
        \/ call' = [call EXCEPT ![c] =
             IF users[rec.uid].exists
               THEN Throw(rec, HttpsError("already-exists", "user already exists"))
               ELSE [rec EXCEPT !.pc = "readUsername"]]
  /\ UNCHANGED <<Fixed, Store, succ>>

\* Step 5: usernameRef.once('value')
ReadUsernameRef(c) ==
  /\ strategy = "A"
  /\ call[c].pc = "readUsername"
  /\ LET rec == Touch(call[c], "read", "usernames")
     IN \/ call' = [call EXCEPT ![c] = Throw(Reject(rec), Unexpected)]
        \/ call' = [call EXCEPT ![c] =
             IF usernames[rec.username].exists
               THEN Throw(rec, HttpsError("already-exists", "username already taken"))
               ELSE [rec EXCEPT !.pc = "usernameTxn", !.attempt = 1]]
  /\ UNCHANGED <<Fixed, Store, succ>>

\* Variant: the username loop gives up one attempt later
CatchUsernameOneMore(rec) ==
  IF rec.attempt = maxRetries + 1
    THEN Throw(rec, HttpsError("internal", "Something is wrong"))
    ELSE [rec EXCEPT !.attempt = @ + 1, !.pc = "recheck"]

\* Variant: the next attempt starts without the re-check
CatchUsernameNoRecheck(rec) ==
  IF rec.attempt = maxRetries
    THEN Throw(rec, HttpsError("internal", "Something is wrong"))
    ELSE [rec EXCEPT !.attempt = @ + 1, !.pc = "usernameTxn"]

\* Variant: when the username attempts are used up the handler goes on to
\* the users record
CatchUsernameProceed(rec) ==
  IF rec.attempt = maxRetries
    THEN [rec EXCEPT !.pc = "userTxn", !.attempt = 1, !.txns = 0, !.reads = 0,
                     !.missed = 0]
    ELSE [rec EXCEPT !.attempt = @ + 1, !.pc = "recheck"]

\* the catch block of the username loop, for an error that is no HttpsError
CatchUsername(rec) ==
  IF rec.attempt = maxRetries
    THEN Throw(rec, HttpsError("internal", "Something is wrong"))
    ELSE [rec EXCEPT !.attempt = @ + 1, !.pc = "recheck"]

\* "Re-check if username exists before retrying (except on first attempt)"
RecheckUsername(c) ==
  /\ strategy = "A"
  /\ call[c].pc = "recheck"
  /\ LET rec == [Touch(call[c], "read", "usernames") EXCEPT !.reads = @ + 1]
     IN \/ call' = [call EXCEPT ![c] =
             CatchUsername([Reject(rec) EXCEPT !.missed = @ + 1])]
        \/ call' = [call EXCEPT ![c] =
             IF usernames[rec.username].exists
               THEN Throw(rec, HttpsError("already-exists", "username already taken"))
               ELSE [rec EXCEPT !.pc = "usernameTxn"]]
  /\ UNCHANGED <<Fixed, Store, succ>>

\* Variant: the update function writes whatever the current value is
UsernameUpdateOverwrite(currentData, timestamp) ==
  [exists |-> TRUE, uid |-> "", created_at |-> timestamp]

\* the update function of the username transaction: the value to write, or
\* NoUsername for "abort" (return undefined)
UsernameUpdate(currentData, timestamp) ==
  IF ~currentData.exists
    THEN [exists |-> TRUE, uid |-> "", created_at |-> timestamp]
    ELSE NoUsername

\* the username loop ends with break: the user loop starts
StartUserLoop(rec, createdTimestamp) ==
  [rec EXCEPT !.createdTimestamp = createdTimestamp, !.pc = "userTxn",
              !.attempt = 1, !.txns = 0, !.reads = 0, !.missed = 0]

\* Step 6: one username transaction, and what follows it
UsernameTransaction(c) ==
  /\ strategy = "A"
  /\ call[c].pc = "usernameTxn"
  /\ LET rec == [Touch(call[c], "txn", "usernames") EXCEPT !.txns = @ + 1]
         username == rec.username
     IN \/ \* the transaction rejects: nothing is written
           /\ call' = [call EXCEPT ![c] = CatchUsername(Reject(rec))]
           /\ UNCHANGED <<users, usernames, clock>>
        \/ \* aborted by the update function: committed = false
           /\ ~UsernameUpdate(usernames[username], clock + 1).exists
           /\ call' = [call EXCEPT ![c] = CatchUsername(rec)]
           /\ UNCHANGED <<users, usernames, clock>>
        \/ /\ UsernameUpdate(usernames[username], clock + 1).exists
           /\ clock < MaxClock
           /\ clock' = clock + 1
           /\ usernames' = [usernames EXCEPT
                              ![username] = UsernameUpdate(usernames[username], clock')]
           /\ call' = [call EXCEPT ![c] =
                StartUserLoop(rec, usernames'[username].created_at)]
           /\ UNCHANGED users
  /\ UNCHANGED <<Fixed, queue, presence, succ>>

\* Variant: after the last attempt the handler throws without the cleanup
CatchUserNoCleanup(rec) ==
  IF rec.attempt = maxRetries
    THEN Throw(rec, HttpsError("internal", "Something is Wrong"))
    ELSE Sleep([rec EXCEPT !.attempt = @ + 1, !.pc = "userTxn"], retryDelay)

\* the catch block of the user loop (every error, HttpsError or not), and the
\* wait that opens the next attempt
CatchUser(rec) ==
  IF rec.attempt = maxRetries
    THEN [rec EXCEPT !.pc = "cleanup"]
    ELSE Sleep([rec EXCEPT !.attempt = @ + 1, !.pc = "userTxn"], retryDelay)

\* Variant: the user record gets a timestamp of its own
UserUpdateFreshTimestamp(currentData, rec) ==
  IF ~currentData.exists
    THEN [exists |-> TRUE, created_at |-> clock + 1,
          username |-> rec.username, email_address |-> Email(rec.uid)]
    ELSE NoUser

\* the update function of the user transaction
UserUpdate(currentData, rec) ==
  IF ~currentData.exists
    THEN [exists |-> TRUE, created_at |-> rec.createdTimestamp,
          username |-> rec.username, email_address |-> Email(rec.uid)]
    ELSE NoUser

\* Step 7: one user transaction, and what follows it
UserTransaction(c) ==
  /\ strategy = "A"
  /\ call[c].pc = "userTxn"
  /\ LET rec == [Touch(call[c], "txn", "users") EXCEPT !.txns = @ + 1]
         uid == rec.uid
     IN \/ \* the transaction rejects: nothing is written
           /\ call' = [call EXCEPT ![c] = CatchUser(Reject(rec))]
           /\ UNCHANGED <<users, succ>>
        \/ /\ ~UserUpdate(users[uid], rec).exists
           /\ call' = [call EXCEPT ![c] = CatchUser(rec)]
           /\ UNCHANGED <<users, succ>>
        \/ /\ UserUpdate(users[uid], rec).exists
           /\ users' = [users EXCEPT ![uid] = UserUpdate(users[uid], rec)]
           /\ call' = [call EXCEPT ![c] =
                Return(rec, [success |-> TRUE, username |-> rec.username, uid |-> uid])]
           /\ succ' = succ (+) SetToBag({<<uid, rec.username>>})
  /\ UNCHANGED <<Fixed, usernames, queue, presence, clock>>

\* Variant: a failure of the cleanup reaches the top-level catch
CleanupUsernameSurfaced(c) ==
  /\ strategy = "A"
  /\ call[c].pc = "cleanup"
  /\ LET rec == [Touch(call[c], "delete", "usernames") EXCEPT !.deletes = @ + 1]
         wrong == HttpsError("internal", "Something is Wrong")
     IN \/ /\ usernames' = [usernames EXCEPT ![rec.username] = NoUsername]
           /\ call' = [call EXCEPT ![c] = Throw(rec, wrong)]
        \/ /\ call' = [call EXCEPT ![c] = Throw(Reject(rec), Unexpected)]
           /\ UNCHANGED usernames
  /\ UNCHANGED <<Fixed, users, queue, presence, clock, succ>>

\* Step 8: usernameRef.remove(), then throw
CleanupUsername(c) ==
  /\ strategy = "A"
  /\ call[c].pc = "cleanup"
  /\ LET rec == [Touch(call[c], "delete", "usernames") EXCEPT !.deletes = @ + 1]
         wrong == HttpsError("internal", "Something is Wrong")
     IN \/ /\ usernames' = [usernames EXCEPT ![rec.username] = NoUsername]
           /\ call' = [call EXCEPT ![c] = Throw(rec, wrong)]
        \/ \* remove() rejects: logged, nothing is deleted
           /\ call' = [call EXCEPT ![c] = Throw(Reject(rec), wrong)]
           /\ UNCHANGED usernames
  /\ UNCHANGED <<Fixed, users, queue, presence, clock, succ>>

(***************************************************************************)
(* quickMatch: join the matchmaking queue                                  *)
(***************************************************************************)
\* Variant: the presence snapshot is read and not looked at
ReadPresenceIgnored(c) ==
  /\ call[c].pc = "readPresence"
  /\ LET rec == Touch(call[c], "read", "presence")
     IN \/ call' = [call EXCEPT ![c] = Throw(Reject(rec), Unexpected)]
        \/ call' = [call EXCEPT ![c] = [rec EXCEPT !.pc = "readQueue"]]
  /\ UNCHANGED <<Fixed, Store, succ>>

\* Variant: only callers with a users record are admitted
ReadPresenceMembersOnly(c) ==
  /\ call[c].pc = "readPresence"
  /\ LET rec == Touch(call[c], "read", "presence")
     IN \/ call' = [call EXCEPT ![c] = Throw(Reject(rec), Unexpected)]
        \/ call' = [call EXCEPT ![c] =
             IF ~presence[rec.uid] \/ ~users[rec.uid].exists
               THEN Throw(rec, HttpsError("failed-precondition", "User Not Online"))
               ELSE [rec EXCEPT !.pc = "readQueue"]]
  /\ UNCHANGED <<Fixed, Store, succ>>

\* Step 2: presenceRef.once('value')
ReadPresence(c) ==
  /\ call[c].pc = "readPresence"
  /\ LET rec == Touch(call[c], "read", "presence")
     IN \/ call' = [call EXCEPT ![c] = Throw(Reject(rec), Unexpected)]
        \/ call' = [call EXCEPT ![c] =
             IF ~presence[rec.uid]
               THEN Throw(rec, HttpsError("failed-precondition", "User Not Online"))
               ELSE [rec EXCEPT !.pc = "readQueue"]]
  /\ UNCHANGED <<Fixed, Store, succ>>

\* Variant: the queue document is read and not looked at
ReadQueueDocNoCheck(c) ==
  /\ call[c].pc = "readQueue"
  /\ LET rec == Touch(call[c], "read", "queue")
     IN \/ call' = [call EXCEPT ![c] = Throw(Reject(rec), Unexpected)]
        \/ call' = [call EXCEPT ![c] = [rec EXCEPT !.pc = "setQueue"]]
  /\ UNCHANGED <<Fixed, Store, succ>>

\* Step 3: queueDocRef.get()
ReadQueueDoc(c) ==
  /\ call[c].pc = "readQueue"
  /\ LET rec == Touch(call[c], "read", "queue")
     IN \/ call' = [call EXCEPT ![c] = Throw(Reject(rec), Unexpected)]
        \/ call' = [call EXCEPT ![c] =
             IF queue[rec.uid].exists
               THEN Throw(rec, HttpsError("already-exists",
                                          "User Already Waiting to be matched"))
               ELSE [rec EXCEPT !.pc = "setQueue"]]
  /\ UNCHANGED <<Fixed, Store, succ>>

\* Variant: the entry is written without its status
QueueDocNoStatus(uid, timestamp) ==
  [exists |-> TRUE, uid |-> uid, created_at |-> timestamp, status |-> ""]

QueueDoc(uid, timestamp) ==
  [exists |-> TRUE, uid |-> uid, created_at |-> timestamp, status |-> "waiting"]

\* Variant: the document written is that of another caller
SetQueueDocOtherKey(c) ==
  /\ call[c].pc = "setQueue"
  /\ LET rec == Touch(call[c], "write", "queue")
         other == CHOOSE u \in Uids : u # rec.uid
     IN \/ /\ call' = [call EXCEPT ![c] = Throw(Reject(rec), Unexpected)]
           /\ UNCHANGED <<queue, clock>>
        \/ /\ clock < MaxClock
           /\ clock' = clock + 1
           /\ queue' = [queue EXCEPT ![other] = QueueDoc(other, clock')]
           /\ call' = [call EXCEPT ![c] = Return(rec, [success |-> TRUE])]
  /\ UNCHANGED <<Fixed, users, usernames, presence, succ>>

\* Variant: the write is a create, refused when the document exists
SetQueueDocIfAbsent(c) ==
  /\ call[c].pc = "setQueue"
  /\ LET rec == Touch(call[c], "write", "queue")
     IN \/ /\ call' = [call EXCEPT ![c] = Throw(Reject(rec), Unexpected)]
           /\ UNCHANGED <<queue, clock>>
        \/ /\ queue[rec.uid].exists
           /\ call' = [call EXCEPT ![c] =
                Throw(rec, HttpsError("already-exists",
                                      "User Already Waiting to be matched"))]
           /\ UNCHANGED <<queue, clock>>
        \/ /\ ~queue[rec.uid].exists
           /\ clock < MaxClock
           /\ clock' = clock + 1
           /\ queue' = [queue EXCEPT ![rec.uid] = QueueDoc(rec.uid, clock')]
           /\ call' = [call EXCEPT ![c] = Return(rec, [success |-> TRUE])]
  /\ UNCHANGED <<Fixed, users, usernames, presence, succ>>

\* Step 4: queueDocRef.set(...)
SetQueueDoc(c) ==
  /\ call[c].pc = "setQueue"
  /\ LET rec == Touch(call[c], "write", "queue")
     IN \/ /\ call' = [call EXCEPT ![c] = Throw(Reject(rec), Unexpected)]
           /\ UNCHANGED <<queue, clock>>
        \/ /\ clock < MaxClock
           /\ clock' = clock + 1
           /\ queue' = [queue EXCEPT ![rec.uid] = QueueDoc(rec.uid, clock')]
           /\ call' = [call EXCEPT ![c] = Return(rec, [success |-> TRUE])]
  /\ UNCHANGED <<Fixed, users, usernames, presence, succ>>

(***************************************************************************)
(* cancelQuickMatch: leave the queue, deleteWithRetry(queueDocRef, 10, 500)*)
(***************************************************************************)
\* error.message.includes(t)
Includes(s, t) ==
  LET cs == Chars(s)
      ct == Chars(t)
  IN \E i \in 1..(Len(cs) - Len(ct) + 1) : SubSeq(cs, i, i + Len(ct) - 1) = ct

StoreError(code, message) == [code |-> code, message |-> message]

\* the errors a Firestore get() or delete() can reject with
StoreErrors ==
  {StoreError("aborted", "Transaction was aborted"),
   StoreError("failed-precondition", "Precondition failed"),
   StoreError("unavailable", "Service unavailable"),
   StoreError("permission-denied", "Permission denied"),
   StoreError("unknown", "too many concurrent edits"),
   StoreError("unknown", "document is locked"),
   StoreError("not-found", "Not found"),
   StoreError("undefined", "Unexpected error")}

\* Variant: service-unavailable is not taken for contention
isLockedErrorNoUnavailable(error) ==
  \/ error.code = "aborted"
  \/ error.code = "failed-precondition"
  \/ Includes(error.message, "concurrent")
  \/ Includes(error.message, "locked")

isLockedError(error) ==
  \/ error.code = "aborted"
  \/ error.code = "failed-precondition"
  \/ error.code = "unavailable"
  \/ Includes(error.message, "concurrent")
  \/ Includes(error.message, "locked")

\* Variant: the loop retries once more
CatchDeleteOneMore(rec, error) ==
  IF isLockedError(error) /\ rec.attempt <= deleteMaxRetries
    THEN Sleep([rec EXCEPT !.pc = "deleteRead", !.attempt = @ + 1,
                           !.error = error], retryDelayMs)
    ELSE Return([rec EXCEPT !.deleted = "false", !.error = error],
                [success |-> TRUE])

\* Variant: every error is retried
CatchDeleteRetryAll(rec, error) ==
  IF rec.attempt < deleteMaxRetries
    THEN Sleep([rec EXCEPT !.pc = "deleteRead", !.attempt = @ + 1,
                           !.error = error], retryDelayMs)
    ELSE Return([rec EXCEPT !.deleted = "false", !.error = error],
                [success |-> TRUE])

\* Variant: an error that is not retried reaches the caller
CatchDeleteThrows(rec, error) ==
  IF isLockedError(error) /\ rec.attempt < deleteMaxRetries
    THEN Sleep([rec EXCEPT !.pc = "deleteRead", !.attempt = @ + 1,
                           !.error = error], retryDelayMs)
    ELSE Throw([rec EXCEPT !.deleted = "false", !.error = error], Unexpected)

\* Variant: the retry goes straight to delete(), without a new get()
CatchDeleteNoReread(rec, error) ==
  IF isLockedError(error) /\ rec.attempt < deleteMaxRetries
    THEN Sleep([rec EXCEPT !.pc = "delete", !.attempt = @ + 1,
                           !.error = error], retryDelayMs)
    ELSE Return([rec EXCEPT !.deleted = "false", !.error = error],
                [success |-> TRUE])

\* Variant: a contended error is retried without counting the attempt
CatchDeleteForever(rec, error) ==
  IF isLockedError(error)
    THEN Sleep([rec EXCEPT !.pc = "deleteRead", !.error = error], retryDelayMs)
    ELSE Return([rec EXCEPT !.deleted = "false", !.error = error],
                [success |-> TRUE])

\* the catch block of deleteWithRetry (sleep and continue, or return false);
\* the handler returns success whatever deleteWithRetry returns
CatchDelete(rec, error) ==
  IF isLockedError(error) /\ rec.attempt < deleteMaxRetries
    THEN Sleep([rec EXCEPT !.pc = "deleteRead", !.attempt = @ + 1,
                           !.error = error], retryDelayMs)
    ELSE Return([rec EXCEPT !.deleted = "false", !.error = error],
                [success |-> TRUE])

\* Variant: the attempt deletes without looking at what get() returned
DeleteReadNoCheck(c) ==
  /\ call[c].pc = "deleteRead"
  /\ LET rec == [Touch(call[c], "read", "queue") EXCEPT !.reads = @ + 1]
     IN \/ \E error \in StoreErrors :
             call' = [call EXCEPT ![c] = CatchDelete(Reject(rec), error)]
        \/ call' = [call EXCEPT ![c] = [rec EXCEPT !.pc = "delete"]]
  /\ UNCHANGED <<Fixed, Store, succ>>

\* docRef.get() of one attempt
DeleteRead(c) ==
  /\ call[c].pc = "deleteRead"
  /\ LET rec == [Touch(call[c], "read", "queue") EXCEPT !.reads = @ + 1]
     IN \/ \E error \in StoreErrors :
             call' = [call EXCEPT ![c] = CatchDelete(Reject(rec), error)]
        \/ call' = [call EXCEPT ![c] =
             IF ~queue[rec.uid].exists
               THEN Return([rec EXCEPT !.deleted = "true"], [success |-> TRUE])
               ELSE [rec EXCEPT !.pc = "delete"]]
  /\ UNCHANGED <<Fixed, Store, succ>>

\* Variant: the loop goes on after a delete that succeeded
DeleteDocContinues(c) ==
  /\ call[c].pc = "delete"
  /\ LET rec == [Touch(call[c], "delete", "queue") EXCEPT !.deletes = @ + 1]
     IN \/ /\ \E error \in StoreErrors :
                call' = [call EXCEPT ![c] = CatchDelete(Reject(rec), error)]
           /\ UNCHANGED queue
        \/ /\ queue' = [queue EXCEPT ![rec.uid] = NoEntry]
           /\ call' = [call EXCEPT ![c] =
                IF rec.attempt < deleteMaxRetries
                  THEN [rec EXCEPT !.pc = "deleteRead", !.attempt = @ + 1]
                  ELSE Return([rec EXCEPT !.deleted = "true"], [success |-> TRUE])]
  /\ UNCHANGED <<Fixed, users, usernames, presence, clock, succ>>

\* docRef.delete() of one attempt
DeleteDoc(c) ==
  /\ call[c].pc = "delete"
  /\ LET rec == [Touch(call[c], "delete", "queue") EXCEPT !.deletes = @ + 1]
     IN \/ /\ \E error \in StoreErrors :
                call' = [call EXCEPT ![c] = CatchDelete(Reject(rec), error)]
           /\ UNCHANGED queue
        \/ /\ queue' = [queue EXCEPT ![rec.uid] = NoEntry]
           /\ call' = [call EXCEPT ![c] =
                Return([rec EXCEPT !.deleted = "true"], [success |-> TRUE])]
  /\ UNCHANGED <<Fixed, users, usernames, presence, clock, succ>>

(***************************************************************************)
(* The environment: presence markers and the match-making consumer         *)
(***************************************************************************)
SetPresence(u) ==
  /\ component = "queue"
  /\ presence' = [presence EXCEPT ![u] = ~@]
  /\ UNCHANGED <<Fixed, users, usernames, queue, clock, call, succ>>

MatchConsumer(u) ==
  /\ queue[u].exists
  /\ queue' = [queue EXCEPT ![u] = NoEntry]
  /\ UNCHANGED <<Fixed, users, usernames, presence, clock, call, succ>>

(***************************************************************************)
(* listItems: cursor pagination over the items collection                  *)
(***************************************************************************)
Min(a, b) == IF a <= b THEN a ELSE b

\* the items collection: the createdAt of each document id, 0 for no document
DocIds == 1..MaxItems
Collections == [DocIds -> 0..MaxCreated]
Docs(items) == {[id |-> id, createdAt |-> items[id]] : id \in {i \in DocIds : items[i] # 0}}

\* orderBy('createdAt', 'desc').orderBy(documentId(), 'desc')
Before(x, y) ==
  \/ x.createdAt > y.createdAt
  \/ x.createdAt = y.createdAt /\ x.id > y.id

RECURSIVE OrderBy(_)
OrderBy(S) ==
  IF S = {} THEN <<>>
  ELSE LET first == CHOOSE x \in S : \A y \in S \ {x} : Before(x, y)
       IN <<first>> \o OrderBy(S \ {first})

\* q.startAfter(lastValue, docId), and q.startAfter(snap) with the fields of
\* the snapshot
StartAfter(s, lastValue, docId) ==
  SelectSeq(s, LAMBDA x : Before([id |-> docId, createdAt |-> lastValue], x))

\* q.limit(n)
Limit(s, n) == SubSeq(s, 1, Min(n, Len(s)))

\* req.query.limit: absent, or a number
NoLimit == 0 - 1
Limits == {NoLimit} \cup 1..MaxLimit

\* Math.min(parseInt(req.query.limit || DEFAULT_PAGE_SIZE, 10), MAX_PAGE_SIZE)
PageSize(limit) ==
  Min(IF limit = NoLimit THEN DEFAULT_PAGE_SIZE ELSE limit, MAX_PAGE_SIZE)

\* utils/cursor.js: the token is base64url(JSON(payload)) "." HMAC of that
base64urlEncode(json) == <<"base64url", json>>
base64urlDecode(b64) == b64[2]
Hmac(b64) == <<"hmac-sha256", b64>>
signPayload(payload) ==
  [b64 |-> base64urlEncode(payload), sig |-> Hmac(base64urlEncode(payload))]

NoCursor == [b64 |-> <<>>, sig |-> <<>>]
NoPayload == [lastValue |-> 0, docId |-> 0, v |-> 0, exp |-> 0]

\* verifyCursor: the payload, or NoPayload for a thrown error
verifyCursor(token, now) ==
  IF token.sig # Hmac(token.b64) THEN NoPayload
  ELSE LET payload == base64urlDecode(token.b64)
       IN IF payload.exp # 0 /\ now > payload.exp THEN NoPayload
          ELSE IF payload.v # 1 THEN NoPayload
          ELSE IF payload.docId = 0 THEN NoPayload
          ELSE payload

\* the responses of listItems
Page(docs, nextCursor) ==
  [status |-> 200, items |-> docs, nextCursor |-> nextCursor,
   hasMore |-> nextCursor # NoCursor]
InvalidCursor == [status |-> 400, items |-> <<>>, nextCursor |-> NoCursor, hasMore |-> FALSE]
InternalError == [status |-> 500, items |-> <<>>, nextCursor |-> NoCursor, hasMore |-> FALSE]

\* the handler, its queries served: the page after the cursor, and a cursor
\* made of the document popped off the end when one more than the page size
\* came back
listItems(items, limit, cursorToken, now) ==
  LET pageSize == PageSize(limit)
      all == OrderBy(Docs(items))
      payload == verifyCursor(cursorToken, now)
      snap == [id |-> payload.docId, createdAt |-> items[payload.docId]]
      q == IF cursorToken = NoCursor THEN all
           ELSE IF snap.createdAt # 0
             THEN StartAfter(all, snap.createdAt, snap.id)
             ELSE StartAfter(all, payload.lastValue, payload.docId)
      docs == Limit(q, pageSize + 1)
  IN IF cursorToken # NoCursor /\ payload = NoPayload THEN InvalidCursor
     ELSE IF Len(docs) = pageSize + 1
       THEN LET last == docs[Len(docs)]
            IN Page(SubSeq(docs, 1, Len(docs) - 1),
                    signPayload([lastValue |-> last.createdAt, docId |-> last.id,
                                 v |-> 1, exp |-> now + CURSOR_TTL_MS]))
       ELSE Page(docs, NoCursor)

\* a client about to request the first page
StartPagers ==
  {[pc |-> "first", items |-> items, limit |-> limit, cursor |-> NoCursor,
    seen |-> <<>>, hasMore |-> FALSE, now |-> 0] :
     items \in Collections, limit \in Limits}

\* GET /listItems, with the nextCursor of the previous page if there was one,
\* sent at once or when the cursor's time to live is just over or not
RequestPage ==
  /\ component = "items"
  /\ pager.pc \in {"first", "next"}
  /\ \E elapsed \in {0, CURSOR_TTL_MS, CURSOR_TTL_MS + 1} :
       /\ pager.pc = "first" => elapsed = 0
       /\ LET now == pager.now + elapsed
              served == listItems(pager.items, pager.limit, pager.cursor, now)
          IN \E res \in {served, InternalError} :
               pager' = [pager EXCEPT
                           !.pc = IF res.status # 200 THEN "failed"
                                  ELSE IF res.nextCursor = NoCursor THEN "end"
                                  ELSE "next",
                           !.seen = @ \o res.items,
                           !.cursor = res.nextCursor,
                           !.hasMore = res.hasMore,
                           !.now = now]
  /\ UNCHANGED <<strategy, component, users, usernames, queue, presence, clock,
                 call, succ>>

(***************************************************************************)
(* Specifications                                                          *)
(***************************************************************************)
\* Spec: concurrent createNewUser invocations of verified callers, each slot
\* used once
InitIdentity == Init /\ component = "identity"

Next ==
  \E c \in Calls :
    \/ \E r \in CoreRequests : Invoke(c, r)
    \/ ReadUserDoc(c)
    \/ RunTransaction(c)
    \/ ReadUserRef(c)
    \/ ReadUsernameRef(c)
    \/ RecheckUsername(c)
    \/ UsernameTransaction(c)
    \/ UserTransaction(c)
    \/ CleanupUsername(c)

Spec == InitIdentity /\ [][Next]_vars

\* SpecSeq: one invocation at a time, of any handler of the run's component,
\* with any request
NextSeq ==
  \/ \E r \in AllRequests : Invoke(1, r)
  \/ ReadUserDoc(1)
  \/ RunTransaction(1)
  \/ ReadUserRef(1)
  \/ ReadUsernameRef(1)
  \/ RecheckUsername(1)
  \/ UsernameTransaction(1)
  \/ UserTransaction(1)
  \/ CleanupUsername(1)
  \/ ReadPresence(1)
  \/ ReadQueueDoc(1)
  \/ SetQueueDoc(1)
  \/ DeleteRead(1)
  \/ DeleteDoc(1)
  \/ Reset(1)
  \/ \E u \in Uids : SetPresence(u)
  \/ \E u \in Uids : MatchConsumer(u)

SpecSeq == Init /\ [][NextSeq]_vars

\* the next step of the invocation in slot c: the store call it is awaiting
\* returns, with a value or with an error
Progress(c) ==
  \/ ReadUserDoc(c)
  \/ RunTransaction(c)
  \/ ReadUserRef(c)
  \/ ReadUsernameRef(c)
  \/ RecheckUsername(c)
  \/ UsernameTransaction(c)
  \/ UserTransaction(c)
  \/ CleanupUsername(c)
  \/ ReadPresence(c)
  \/ ReadQueueDoc(c)
  \/ SetQueueDoc(c)
  \/ DeleteRead(c)
  \/ DeleteDoc(c)

\* SpecLive: one invocation of any handler with any request, while the
\* environment changes presence markers and consumes queue entries, and every
\* awaited store call returns.  A run starts from an empty identity store; a
\* run of the queue handlers starts with any set of callers already waiting.
InitLive ==
  /\ strategy \in {"A", "B"}
  /\ component \in {"identity", "queue"}
  /\ component = "queue" => strategy = "B"
  /\ users = NoUsers /\ usernames = NoUsernames
  /\ \E waiting \in SUBSET Uids :
       /\ component = "identity" => waiting = {}
       /\ clock = Cardinality(waiting)
       /\ queue = [u \in Uids |->
                    IF u \in waiting
                      THEN QueueDoc(u, IF u = "u1" THEN 1 ELSE Cardinality(waiting))
                      ELSE NoEntry]
  /\ presence = [u \in Uids |-> FALSE]
  /\ call = [c \in Calls |-> IdleCall]
  /\ succ = EmptyBag
  /\ pager = NoPager

NextLive ==
  \/ \E r \in AllRequests : Invoke(1, r)
  \/ Progress(1)
  \/ \E u \in Uids : SetPresence(u)
  \/ \E u \in Uids : MatchConsumer(u)

SpecLive == InitLive /\ [][NextLive]_vars /\ WF_vars(Progress(1))

\* SpecJoin: concurrent quickMatch invocations of verified callers, each slot
\* used once, while presence markers come and go; nothing removes an entry
InitQueue == Init /\ component = "queue"

NextJoin ==
  \/ \E c \in Calls :
       \/ \E r \in JoinRequests : Invoke(c, r)
       \/ ReadPresence(c)
       \/ ReadQueueDoc(c)
       \/ SetQueueDoc(c)
  \/ \E u \in Uids : SetPresence(u)

SpecJoin == InitQueue /\ [][NextJoin]_vars

\* SpecList: one client pages through an items collection that does not
\* change
InitList ==
  /\ strategy = "B"
  /\ component = "items"
  /\ users = NoUsers
  /\ usernames = NoUsernames
  /\ queue = [u \in Uids |-> NoEntry]
  /\ presence = [u \in Uids |-> FALSE]
  /\ clock = 0
  /\ call = [c \in Calls |-> IdleCall]
  /\ succ = EmptyBag
  /\ pager \in StartPagers

NextList == RequestPage

SpecList == InitList /\ [][NextList]_vars

(***************************************************************************)
(* Properties                                                              *)
(***************************************************************************)
Done(c) == call[c].pc = "done"
Succeeded(c) == Done(c) /\ call[c].resp.code = "ok"
Failed(c) == Done(c) /\ call[c].resp.code # "ok"

\* the username rule as the interface states it: 8 to 15 characters, a
\* lowercase letter first, then lowercase letters, digits and underscores
UsernameRule(s) ==
  LET cs == Chars(s)
  IN /\ Len(cs) \in 8..15
     /\ cs[1] \in Lower
     /\ \A i \in 2..Len(cs) : cs[i] \in Lower \cup Digit \cup {"_"}

WellFormed(data) == data.type = "string" /\ UsernameRule(Trim(data.value))

\* C1: username uniqueness under concurrency.  In every reachable state, for
\* every username, at most one createNewUser call has returned success with
\* it and at most one users record carries it.
UsernameUniqueness ==
  \A n \in Names :
    /\ Cardinality({c \in Calls : Succeeded(c) /\ call[c].username = n}) <= 1
    /\ Cardinality({u \in Uids : users[u].exists /\ users[u].username = n}) <= 1
    /\ \A u \in Uids : CopiesIn(<<u, n>>, succ) <= 1
    /\ Cardinality({u \in Uids : BagIn(<<u, n>>, succ)}) <= 1

\* two callers raced for one username: both were in flight together, one
\* returned success, the other reached its transaction and failed
RaceLost ==
  \E c, d \in Calls :
    /\ call[c].uid # call[d].uid
    /\ call[c].username = call[d].username
    /\ Succeeded(c)
    /\ Failed(d)
    /\ ~call[d].late
    /\ <<"txn", "usernames">> \in call[d].touched
    /\ call[d].resp.code = "already-exists"

\* C2: one identity per caller, immutable.  At most one createNewUser call of
\* a caller returns success, and no step changes or deletes a users record
\* that exists.
OneIdentityPerCaller ==
  /\ [](\A u \in Uids :
          Cardinality({c \in Calls : Succeeded(c) /\ call[c].uid = u}) <= 1)
  /\ [][\A u \in Uids : users[u].exists => users'[u] = users[u]]_vars

\* one caller made two calls with different usernames, in flight together: one
\* returned success, the other failed after it had reached its transaction
SecondCallOfCallerFailed ==
  \E c, d \in Calls :
    /\ call[c].uid = call[d].uid
    /\ call[c].username # call[d].username
    /\ Succeeded(c)
    /\ Failed(d)
    /\ ~call[d].member
    /\ users[call[c].uid].username = call[c].username

\* C3: pairing in the Firestore implementation.  In every reachable state
\* users/{c} exists with username u exactly when usernames/{u} exists with
\* uid c.
PairingAtomicity ==
  strategy = "B" =>
    \A u \in Uids, n \in Names :
      (users[u].exists /\ users[u].username = n)
        <=> (usernames[n].exists /\ usernames[n].uid = u)

\* the Firestore implementation committed one pair while another call, which
\* had run its transaction too, failed
PairCommitted ==
  /\ strategy = "B"
  /\ \E c, d \in Calls :
       /\ Succeeded(c)
       /\ usernames[call[c].username].uid = call[c].uid
       /\ Failed(d)
       /\ <<"txn", "usernames">> \in call[d].touched

\* C4 as stated: a call for a username another caller has reserved, by a caller
\* who has no identity, fails with already-exists and nothing else.
LateCallAlreadyExists ==
  \A c \in Calls :
    (Done(c) /\ call[c].late /\ ~call[c].member)
      => call[c].resp.code = "already-exists"

\* C4: a call for a username another caller has reserved, by a caller who has
\* no identity at invocation, never succeeds; it fails with already-exists,
\* or with internal when one of its store calls rejected or when (Firestore
\* implementation) its transaction found a users record of the caller.
LateCallFails ==
  \A c \in Calls :
    (Done(c) /\ call[c].late /\ ~call[c].member) =>
      /\ call[c].resp.code # "ok"
      /\ \/ call[c].resp.code = "already-exists"
         \/ /\ call[c].resp.code = "internal"
            /\ \/ call[c].faults
               \/ strategy = "B" /\ users[call[c].uid].exists

\* a call invoked after another caller's success with the same username ended
\* with the username-taken error, none of its store calls having rejected
LateCallRejected ==
  \E c, d \in Calls :
    /\ Succeeded(d)
    /\ call[d].username = call[c].username
    /\ Done(c) /\ call[c].late /\ ~call[c].member /\ ~call[c].faults
    /\ ~users[call[c].uid].exists
    /\ call[c].resp.code = "already-exists"
    /\ call[c].resp.message # "user already exists"

\* C5: error precedence in createNewUser: gate, username format, user exists,
\* username taken.  A gate error wins over everything; a malformed username
\* gives invalid-argument even when the caller has an identity; a caller who
\* has an identity gets "user already exists" whatever the username is (taken
\* or not) once the users read has returned, and never the username-taken
\* error and never success.
ErrorPrecedence ==
  LET rec == call[1]
      r == rec.req
  IN (rec.pc = "done" /\ r.handler = "createNewUser") =>
       /\ Gate(r) # Pass => rec.resp = Gate(r)
       /\ (Gate(r) = Pass /\ ~WellFormed(r.data)) => rec.resp.code = "invalid-argument"
       /\ (Gate(r) = Pass /\ WellFormed(r.data) /\ rec.member /\ ~rec.faults)
            => rec.resp = HttpsError("already-exists", "user already exists")
       /\ rec.member =>
            /\ rec.resp.code # "ok"
            /\ rec.resp.code = "already-exists" => rec.resp.message = "user already exists"

\* a caller who has an identity called with a well-formed username that
\* another caller holds, and got "user already exists"
MemberCalledWithTakenName ==
  /\ call[1].pc = "done"
  /\ call[1].member
  /\ call[1].late
  /\ usernames[call[1].username].exists
  /\ call[1].resp = HttpsError("already-exists", "user already exists")

\* C6: a username that breaks the format rule (after trimming) makes
\* createNewUser fail with invalid-argument at once, without any store call;
\* the step leaves users and usernames as they were.
MalformedUsernameRejected ==
  /\ [](LET rec == call[1]
            r == rec.req
        IN (rec.pc # "idle" /\ r.handler = "createNewUser" /\ Gate(r) = Pass
              /\ r.data.type = "string" /\ ~UsernameRule(Trim(r.data.value)))
             => /\ rec.pc = "done"
                /\ rec.resp.code = "invalid-argument"
                /\ rec.touched = {})
  /\ [][(call[1].pc = "idle" /\ call'[1].resp.code = "invalid-argument")
          => UNCHANGED <<users, usernames>>]_vars

\* a username one character too long was rejected while the keyspaces held
\* records
TooLongRejected ==
  /\ call[1].pc = "done"
  /\ call[1].req.data = StringData(SixteenChars)
  /\ call[1].resp.code = "invalid-argument"
  /\ call[1].touched = {}
  /\ \E u \in Uids : users[u].exists

AppCheckRequired(r) == ~(r.handler = "createNewUser" /\ strategy = "A")

\* the gate of the handler of r rejects r
GateRejects(r) ==
  \/ AppCheckRequired(r) /\ ~r.app
  \/ r.auth \notin Uids
  \/ r.lookup = "throws"
  \/ r.lookup = "unverified"

\* C8: when the gate rejects a request (App Check missing, no auth or uid,
\* user-record lookup failure, unverified email), createNewUser, quickMatch
\* and cancelQuickMatch end with an error without any store call, and the
\* step leaves every keyspace as it was.
GateRejectionTouchesNothing ==
  /\ [](LET rec == call[1]
        IN (rec.pc # "idle" /\ GateRejects(rec.req))
             => /\ rec.pc = "done"
                /\ rec.resp.code \in {"failed-precondition", "unauthenticated", "internal"}
                /\ rec.touched = {})
  /\ [][(call[1].pc = "idle" /\ call'[1].pc # "idle" /\ GateRejects(call'[1].req))
          => UNCHANGED Store]_vars

\* cancelQuickMatch was rejected at the gate while the caller's queue entry
\* existed, and the entry is still there
CancelRejectedAtGate ==
  /\ call[1].pc = "done"
  /\ call[1].req.handler = "cancelQuickMatch"
  /\ call[1].req.auth \in Uids
  /\ call[1].req.lookup = "throws"
  /\ call[1].resp.code = "internal"
  /\ queue[call[1].req.auth].exists

\* C9 as stated: a request without caller identity fails with unauthenticated
\* whatever else the context holds, and one with identity and unverified
\* email fails with failed-precondition "use a verified email address to
\* continue".
NoIdentityUnauthenticated ==
  LET rec == call[1]
      r == rec.req
  IN rec.pc # "idle" =>
       /\ r.auth \notin Uids => rec.resp.code = "unauthenticated"
       /\ (r.auth \in Uids /\ r.lookup = "unverified")
            => rec.resp = HttpsError("failed-precondition",
                                     "use a verified email address to continue")

\* C9: where the handler checks App Check, a request without App Check token
\* fails with failed-precondition "App Check verification failed" whatever its
\* auth is; otherwise a request without caller identity fails with
\* unauthenticated, and one with identity and unverified email fails with
\* failed-precondition "use a verified email address to continue".
GateErrorCategories ==
  LET rec == call[1]
      r == rec.req
      checked == AppCheckRequired(r) /\ ~r.app
  IN rec.pc # "idle" =>
       /\ checked => rec.resp = HttpsError("failed-precondition",
                                           "App Check verification failed")
       /\ (~checked /\ r.auth \notin Uids) => rec.resp.code = "unauthenticated"
       /\ (~checked /\ r.auth \in Uids /\ r.lookup = "unverified")
            => rec.resp = HttpsError("failed-precondition",
                                     "use a verified email address to continue")

\* a request with neither App Check token nor auth was rejected for the
\* missing App Check token
NoTokenNoAuthRejected ==
  /\ call[1].pc = "done"
  /\ ~call[1].req.app
  /\ call[1].req.auth = NoAuth
  /\ call[1].resp = HttpsError("failed-precondition", "App Check verification failed")

\* C10: every successful createNewUser returns the trimmed username it
\* reserved, equal to the key written to usernames (and, on the Realtime
\* Database, the caller's uid).
SuccessReturnsUsername ==
  \A c \in Calls :
    (Succeeded(c) /\ call[c].req.handler = "createNewUser") =>
      LET body == call[c].resp.body
      IN /\ "username" \in DOMAIN body
         /\ body.username = Trim(call[c].req.data.value)
         /\ usernames[body.username].exists
         /\ strategy = "A" => ("uid" \in DOMAIN body /\ body.uid = call[c].uid)

\* C11: timestamp agreement.  In every reachable state every users record has
\* the created_at of the usernames record of its username (which exists).
TimestampAgreement ==
  \A u \in Uids :
    users[u].exists =>
      /\ usernames[users[u].username].exists
      /\ usernames[users[u].username].created_at = users[u].created_at

\* on the Realtime Database a call wrote its users record on a retried
\* attempt, after the server clock had passed the timestamp of its reservation
UserWrittenAfterClockMoved ==
  /\ strategy = "A"
  /\ \E c \in Calls :
       /\ Succeeded(c)
       /\ call[c].sleeps > 0
       /\ users[call[c].uid].created_at = call[c].createdTimestamp
       /\ call[c].createdTimestamp < clock

\* C12: retry bound of the Firestore implementation.  A call runs the
\* transaction at most 3 times; it fails with internal "Something is wrong"
\* only after exactly 3 attempts that all failed without the username-taken
\* signal; when attempt k commits, exactly k transactions were run and the
\* call succeeds; and while the loop runs, attempt k is preceded by k - 1
\* transactions.
FirestoreRetryBound ==
  strategy = "B" =>
    \A c \in Calls :
      LET rec == call[c]
      IN /\ rec.txns <= 3
         /\ rec.pc = "txn" => (rec.attempt \in 1..3 /\ rec.txns = rec.attempt - 1)
         /\ (Done(c) /\ rec.resp = HttpsError("internal", "Something is wrong"))
              => (rec.txns = 3 /\ rec.attempt = 3)
         /\ (Done(c) /\ rec.txns = 3 /\ rec.resp.code \notin {"ok", "already-exists"})
              => rec.resp = HttpsError("internal", "Something is wrong")
         /\ Succeeded(c) => (rec.txns = rec.attempt /\ rec.attempt \in 1..3)

\* one Firestore call failed after three transactions while another committed
\* on its third
ThreeAttempts ==
  /\ strategy = "B"
  /\ \E c, d \in Calls :
       /\ Done(c) /\ call[c].resp = HttpsError("internal", "Something is wrong")
       /\ call[c].txns = 3
       /\ Succeeded(d) /\ call[d].txns = 3

\* C13: in the Firestore implementation, when the transaction of an attempt is
\* served and its body finds usernames/{username} (the users/{uid} check before
\* it having passed), that step ends the call with already-exists "username
\* ... already taken", whatever the attempt number, and writes nothing.
TakenEndsTheCall ==
  [][\A c \in Calls :
       (/\ strategy = "B"
        /\ call[c].pc = "txn"
        /\ call'[c] # call[c]
        /\ call'[c].last = "returned"
        /\ ~users[call[c].uid].exists
        /\ usernames[call[c].username].exists)
         => /\ call'[c].pc = "done"
            /\ call'[c].resp = HttpsErrorWith("already-exists",
                                              "username ${username} already taken",
                                              call[c].username)
            /\ call'[c].txns = call[c].txns + 1
            /\ UNCHANGED Store]_vars

\* a Firestore call found the username taken in its second transaction (the
\* first had rejected) and ended there, one attempt unused
TakenOnSecondAttempt ==
  /\ strategy = "B"
  /\ \E c \in Calls :
       /\ Done(c)
       /\ call[c].resp.message = "username ${username} already taken"
       /\ call[c].attempt = 2
       /\ call[c].txns = 2
       /\ ~users[call[c].uid].exists

UserExistsEndsTheCall ==
  [][\A c \in Calls :
       (/\ call[c].pc \in {"readUser", "txn", "userTxn"}
        /\ call'[c] # call[c]
        /\ call'[c].last = "returned"
        /\ users[call[c].uid].exists)
         => /\ call'[c].pc = "done"
            /\ call'[c].resp = HttpsError("already-exists", "user already exists")]_vars

\* C16: rollback on the Realtime Database.  A call whose users transaction
\* did not commit on any of its 3 attempts goes on to delete the reservation
\* it committed; when that delete is served, the reservation is gone and the
\* call fails with internal "Something is Wrong"; and a call of another
\* caller for the same username that starts afterwards succeeds, provided
\* its store calls are all served, its caller makes no other call, and every
\* other call for the username had given it back before.
RollbackOnTheRealtimeDatabase ==
  /\ [](strategy = "A" =>
          \A c \in Calls :
            LET rec == call[c]
            IN /\ rec.pc = "cleanup" =>
                    (rec.txns = 3 /\ rec.attempt = 3 /\ usernames[rec.username].exists)
               /\ (Failed(c) /\ <<"txn", "users">> \in rec.touched)
                    => /\ rec.txns = 3
                       /\ <<"delete", "usernames">> \in rec.touched
                       /\ rec.resp = HttpsError("internal", "Something is Wrong")
               /\ (/\ Done(c) /\ rec.afterRollback /\ ~rec.faults
                   /\ \A e \in Calls \ {c} :
                        \/ call[e].pc = "idle"
                        \/ /\ call[e].uid # rec.uid
                           /\ \/ call[e].username # rec.username
                              \/ e < c /\ RolledBack(e))
                    => Succeeded(c))
  /\ [][\A c \in Calls :
          (/\ strategy = "A"
           /\ call[c].pc = "cleanup"
           /\ call'[c] # call[c]
           /\ call'[c].last = "returned")
            => /\ usernames'[call[c].username] = NoUsername
               /\ call'[c].pc = "done"
               /\ call'[c].resp = HttpsError("internal", "Something is Wrong")
               /\ UNCHANGED users]_vars

\* a call gave its username back, and afterwards a call of another caller
\* reserved that username and succeeded
ReservedAfterRollback ==
  /\ strategy = "A"
  /\ \E c, d \in Calls :
       /\ RolledBack(c)
       /\ call[c].txns = 3
       /\ call[d].afterRollback
       /\ call[d].uid # call[c].uid
       /\ call[d].username = call[c].username
       /\ Succeeded(d)
       /\ call[d].createdTimestamp > call[c].createdTimestamp

\* C17: username phase on the Realtime Database.  Every attempt of the loop
\* issues one username transaction unless its re-check rejected, and there
\* are at most 3 attempts.  A call that ends with internal "Something is
\* wrong" made 3 attempts, none of which committed and no re-check of which
\* found the username: it issued exactly 3 username transactions when all
\* its re-checks were served, and it issued neither a users transaction nor
\* a delete of the username.
InUsernameLoop(c) == call[c].pc \in {"usernameTxn", "recheck"}

RecheckBeforeRetry ==
  /\ [](strategy = "A" =>
          \A c \in Calls :
            LET rec == call[c]
            IN /\ rec.pc = "usernameTxn" =>
                    /\ rec.reads = rec.attempt - 1
                    /\ rec.attempt > 1 => rec.last = "returned"
               /\ (Done(c) /\ rec.resp = HttpsError("already-exists", "username already taken"))
                    => <<"delete", "usernames">> \notin rec.touched)
  /\ [][\A c \in Calls :
          (/\ call[c].pc = "recheck"
           /\ call'[c] # call[c]
           /\ call'[c].last = "returned"
           /\ usernames[call[c].username].exists)
            => /\ call'[c].pc = "done"
               /\ call'[c].resp = HttpsError("already-exists", "username already taken")
               /\ call'[c].txns = call[c].txns
               /\ call'[c].reads = call[c].reads + 1
               /\ UNCHANGED Store]_vars

\* a re-check found the reservation of another call, which later succeeded
TakenAtRecheck ==
  /\ strategy = "A"
  /\ \E c, d \in Calls :
       /\ Done(c)
       /\ call[c].resp = HttpsError("already-exists", "username already taken")
       /\ call[c].reads >= 1
       /\ call[c].txns >= 1
       /\ Succeeded(d)
       /\ call[d].username = call[c].username
       /\ usernames[call[c].username].exists

\* the slot runs cancelQuickMatch and the gate has let the request through
Leaving(rec) ==
  /\ rec.pc # "idle"
  /\ rec.req.handler = "cancelQuickMatch"
  /\ ~GateRejects(rec.req)

\* C19: once the gate has passed, cancelQuickMatch makes at most 10 attempts
\* and returns {success: true}, whether the entry was deleted, was absent,
\* or the store rejected every call.
LeaveAlwaysSucceeds ==
  LET rec == call[1]
  IN Leaving(rec) =>
       /\ rec.pc \in {"deleteRead", "delete", "done"}
       /\ rec.attempt \in 1..deleteMaxRetries
       /\ rec.pc = "done" => /\ rec.resp = Ok([success |-> TRUE])
                             /\ rec.deleted \in {"true", "false"}

\* the store refused the call, the entry is still queued, and the caller was
\* told success
LeaveFailedButSucceeded ==
  /\ Leaving(call[1])
  /\ call[1].pc = "done"
  /\ call[1].deleted = "false"
  /\ call[1].last = "rejected"
  /\ call[1].resp = Ok([success |-> TRUE])
  /\ queue[call[1].uid].exists

\* C20: cancelQuickMatch is idempotent.  A call whose read is served and
\* finds no entry of the caller returns success in that step; when that is
\* its first attempt it has issued exactly one read and no delete.  No step
\* of a call changes the store while the caller has no entry, and a call
\* that reports a deletion leaves the caller without an entry, so a second
\* call in sequence changes nothing.
LeaveIsIdempotent ==
  /\ [](LET rec == call[1]
        IN /\ (Leaving(rec) /\ rec.pc = "done" /\ rec.deleted = "true")
                => ~queue[rec.uid].exists
           /\ (Leaving(rec) /\ rec.pc = "done" /\ ~rec.faults /\ rec.deletes = 0)
                => /\ rec.reads = 1
                   /\ <<"delete", "queue">> \notin rec.touched
                   /\ rec.sleeps = 0)
  /\ [][(/\ call[1].pc = "deleteRead"
         /\ call'[1] # call[1]
         /\ call'[1].last = "returned"
         /\ ~queue[call[1].uid].exists)
          => /\ call'[1].pc = "done"
             /\ call'[1].resp = Ok([success |-> TRUE])
             /\ call'[1].deletes = call[1].deletes
             /\ call[1].attempt = 1 => (call'[1].reads = 1 /\ call'[1].deletes = 0)
             /\ UNCHANGED Store]_vars
  /\ [][(/\ Leaving(call'[1])
         /\ call'[1] # call[1]
         /\ ~queue[call'[1].uid].exists)
          => UNCHANGED Store]_vars

\* a call found nothing to delete: one read, no delete, success
LeftWithoutEntry ==
  /\ Leaving(call[1])
  /\ call[1].pc = "done"
  /\ ~call[1].faults
  /\ call[1].reads = 1
  /\ call[1].deletes = 0
  /\ call[1].resp = Ok([success |-> TRUE])
  /\ ~queue[call[1].uid].exists

\* the failures that count as contention: code aborted, failed-precondition
\* or unavailable, or a message that mentions "concurrent" or "locked"
Contended(error) ==
  \/ error.code \in {"aborted", "failed-precondition", "unavailable"}
  \/ Includes(error.message, "concurrent")
  \/ Includes(error.message, "locked")

\* the step is a rejected delete() of the call in slot 1
DeleteRejected ==
  /\ call[1].pc = "delete"
  /\ call'[1] # call[1]
  /\ call'[1].last = "rejected"

\* C21: retry bound of cancelQuickMatch.  A call issues one read per attempt
\* and at most one delete, makes at most 10 attempts, and has slept 500 ms
\* once between consecutive attempts.  A delete that fails with a contended
\* error before the 10th attempt is followed by one sleep and the next
\* attempt; at the 10th attempt the call returns {success: true} without a
\* further sleep.  A call that issued 10 deletes slept 9 times.
LeaveRetryBound ==
  /\ [](LET rec == call[1]
        IN Leaving(rec) =>
             /\ rec.attempt \in 1..10
             /\ rec.deletes <= 10
             /\ rec.deletes <= rec.reads
             /\ rec.reads \in {rec.attempt - 1, rec.attempt}
             /\ rec.sleeps = rec.attempt - 1
             /\ rec.waited = 500 * rec.sleeps
             /\ (rec.pc = "done" /\ rec.deletes = 10)
                  => /\ rec.sleeps = 9
                     /\ rec.resp = Ok([success |-> TRUE]))
  /\ [][(DeleteRejected /\ Contended(call'[1].error))
          => /\ UNCHANGED Store
             /\ call'[1].deletes = call[1].deletes + 1
             /\ IF call[1].attempt < 10
                  THEN /\ call'[1].pc = "deleteRead"
                       /\ call'[1].attempt = call[1].attempt + 1
                       /\ call'[1].sleeps = call[1].sleeps + 1
                       /\ call'[1].waited = call[1].waited + 500
                  ELSE /\ call'[1].pc = "done"
                       /\ call'[1].resp = Ok([success |-> TRUE])
                       /\ call'[1].sleeps = call[1].sleeps]_vars

\* ten deletes were refused as contended; the entry is still queued
TenDeletes ==
  /\ Leaving(call[1])
  /\ call[1].pc = "done"
  /\ call[1].deletes = 10
  /\ call[1].sleeps = 9
  /\ call[1].waited = 4500
  /\ Contended(call[1].error)
  /\ call[1].resp = Ok([success |-> TRUE])
  /\ queue[call[1].uid].exists

\* C22: a delete that fails with an error that is not contended ends the
\* loop in that step: no sleep, the entry stays, the call returns
\* {success: true}; when it is the first attempt the call has issued exactly
\* one delete and has not slept.
LeaveStopsOnOtherErrors ==
  [][(DeleteRejected /\ ~Contended(call'[1].error))
       => /\ call'[1].pc = "done"
          /\ call'[1].resp = Ok([success |-> TRUE])
          /\ call'[1].deleted = "false"
          /\ call'[1].sleeps = call[1].sleeps
          /\ call'[1].deletes = call[1].deletes + 1
          /\ call[1].attempt = 1 => (call'[1].deletes = 1 /\ call'[1].sleeps = 0)
          /\ queue[call[1].uid].exists => queue'[call[1].uid] = queue[call[1].uid]
          /\ UNCHANGED Store]_vars

\* the first delete was refused with permission-denied
PermissionDeniedOnce ==
  /\ Leaving(call[1])
  /\ call[1].pc = "done"
  /\ call[1].error.code = "permission-denied"
  /\ call[1].deletes = 1
  /\ call[1].sleeps = 0
  /\ call[1].resp = Ok([success |-> TRUE])
  /\ queue[call[1].uid].exists

\* C23: classification of store failures in cancelQuickMatch.  isLockedError
\* holds of an error a call has caught exactly when the error is contended,
\* and a rejected read or delete is retried if and only if its error is
\* contended and the attempt is not the 10th.
ContentionClassification ==
  /\ [](LET rec == call[1]
        IN (Leaving(rec) /\ rec.error.code # "")
             => /\ rec.error \in StoreErrors
                /\ isLockedError(rec.error) <=> Contended(rec.error))
  /\ [][(/\ Leaving(call[1])
         /\ call[1].pc \in {"deleteRead", "delete"}
         /\ call'[1] # call[1]
         /\ call'[1].last = "rejected")
          => /\ call'[1].error \in StoreErrors
             /\ (call'[1].pc = "deleteRead" /\ call'[1].attempt = call[1].attempt + 1)
                  <=> (Contended(call'[1].error) /\ call[1].attempt < 10)
             /\ call'[1].pc = "done"
                  <=> ~(Contended(call'[1].error) /\ call[1].attempt < 10)]_vars

\* a failure with an unclassified code was retried for its message alone
RetriedForItsMessage ==
  /\ Leaving(call[1])
  /\ call[1].pc = "deleteRead"
  /\ call[1].attempt = 2
  /\ call[1].error.code = "unknown"
  /\ Includes(call[1].error.message, "locked")

\* the slot runs quickMatch and the gate has let the request through
Joining(rec) ==
  /\ rec.pc # "idle"
  /\ rec.req.handler = "quickMatch"
  /\ ~GateRejects(rec.req)

NotOnline == HttpsError("failed-precondition", "User Not Online")

AlreadyWaiting == HttpsError("already-exists", "User Already Waiting to be matched")

\* C24: a served presence read of quickMatch that finds no marker of the
\* caller ends the call in that step with failed-precondition "User Not
\* Online" and no store change; a call that ended so has issued the presence
\* read and nothing else: no read and no write of the queue.
NotOnlineRejected ==
  /\ [](LET rec == call[1]
        IN (Joining(rec) /\ rec.pc = "done" /\ rec.resp = NotOnline)
             => rec.touched = {<<"read", "presence">>})
  /\ [][(/\ call[1].pc = "readPresence"
         /\ call'[1] # call[1]
         /\ call'[1].last = "returned"
         /\ ~presence[call[1].uid])
          => /\ call'[1].pc = "done"
             /\ call'[1].resp = NotOnline
             /\ UNCHANGED Store]_vars

\* an offline caller was turned away
OfflineCallerRejected ==
  /\ Joining(call[1])
  /\ call[1].pc = "done"
  /\ call[1].resp = NotOnline
  /\ ~presence[call[1].uid]
  /\ ~queue[call[1].uid].exists

\* C25: a served queue read of quickMatch that finds the caller's entry ends
\* the call in that step with already-exists "User Already Waiting to be
\* matched" and no store change; such a call has issued no write.  With one
\* call at a time a write is only issued, and success only returned, when
\* the caller had no entry, and it leaves a waiting entry: a second call
\* that reads the queue while that entry is there fails as above.
AlreadyWaitingRejected ==
  /\ [](LET rec == call[1]
        IN /\ (Joining(rec) /\ rec.pc = "done" /\ rec.resp = AlreadyWaiting)
                => rec.touched = {<<"read", "presence">>, <<"read", "queue">>}
           /\ (Joining(rec) /\ rec.pc = "setQueue") => ~queue[rec.uid].exists)
  /\ [][(/\ call[1].pc = "readQueue"
         /\ call'[1] # call[1]
         /\ call'[1].last = "returned"
         /\ queue[call[1].uid].exists)
          => /\ call'[1].pc = "done"
             /\ call'[1].resp = AlreadyWaiting
             /\ UNCHANGED Store]_vars
  /\ [][(/\ call[1].pc = "setQueue"
         /\ call'[1] # call[1]
         /\ call'[1].last = "returned")
          => /\ ~queue[call[1].uid].exists
             /\ queue'[call[1].uid].exists
             /\ call'[1].resp = Ok([success |-> TRUE])]_vars

\* a caller who was already queued was turned away; the entry is the old one
SecondJoinRejected ==
  /\ Joining(call[1])
  /\ call[1].pc = "done"
  /\ call[1].resp = AlreadyWaiting
  /\ queue[call[1].uid].exists
  /\ queue[call[1].uid].created_at < clock

\* C26: quickMatch is check-then-set.  The served write of a call stores a
\* fresh waiting entry and returns success whether or not the caller has an
\* entry by then, so two concurrent calls of one caller can both find no
\* entry, both write and both succeed, the later write replacing the
\* created_at of the earlier.
JoinWriteIsUnconditional ==
  [][\A c \in Calls :
       (/\ call[c].pc = "setQueue"
        /\ call'[c] # call[c]
        /\ call'[c].last = "returned")
         => /\ call'[c].pc = "done"
            /\ call'[c].resp = Ok([success |-> TRUE])
            /\ clock' = clock + 1
            /\ queue'[call[c].uid] =
                 [exists |-> TRUE, uid |-> call[c].uid, created_at |-> clock',
                  status |-> "waiting"]]_vars

\* two calls of one caller both returned success, and the entry carries the
\* timestamp of the second write
BothJoinsSucceeded ==
  \E c, d \in Calls :
    /\ c # d
    /\ call[c].uid = call[d].uid
    /\ Joining(call[c]) /\ Joining(call[d])
    /\ call[c].pc = "done" /\ call[d].pc = "done"
    /\ call[c].resp = Ok([success |-> TRUE])
    /\ call[d].resp = Ok([success |-> TRUE])
    /\ <<"write", "queue">> \in call[c].touched \cap call[d].touched
    /\ ~call[c].faults /\ ~call[d].faults
    /\ queue[call[c].uid].created_at = 2

\* C27: the queue entry of a caller is absent or waiting.  The keyspace holds
\* one document per caller id; every existing entry has status "waiting" and
\* the uid of its key.  An entry appears only in the served write of a
\* quickMatch call of that caller, which returns success; inside the
\* protocol an entry disappears only in the served delete of a
\* cancelQuickMatch call of that caller (the match consumer, which is no
\* part of the protocol, removes entries too), and no step changes an entry
\* in any other way.
QueueEntryStateMachine ==
  /\ [](/\ DOMAIN queue = Uids
        /\ \A u \in Uids :
             queue[u].exists => (queue[u].status = "waiting" /\ queue[u].uid = u))
  /\ [][\A u \in Uids :
          /\ (~queue[u].exists /\ queue'[u].exists)
               => /\ Joining(call[1])
                  /\ call[1].pc = "setQueue"
                  /\ call[1].uid = u
                  /\ call'[1].pc = "done"
                  /\ call'[1].resp = Ok([success |-> TRUE])
          /\ (queue[u].exists /\ ~queue'[u].exists /\ call' # call)
               => /\ Leaving(call[1])
                  /\ call[1].pc = "delete"
                  /\ call[1].uid = u
                  /\ call'[1].last = "returned"
                  /\ call'[1].deleted = "true"
          /\ (queue[u].exists /\ queue'[u].exists) => queue'[u] = queue[u]]_vars

\* the caller's entry was deleted by the caller's cancelQuickMatch
EntryDeletedByLeave ==
  /\ Leaving(call[1])
  /\ call[1].pc = "done"
  /\ call[1].deleted = "true"
  /\ call[1].deletes = 1
  /\ call[1].last = "returned"
  /\ ~queue[call[1].uid].exists
  /\ \E u \in Uids : queue[u].exists /\ queue[u].status = "waiting"

Served == call'[1] # call[1] /\ call'[1].last = "returned"

\* what a served step of quickMatch or cancelQuickMatch does, as a function
\* of the caller's presence marker and queue entry alone
QueueStepOutcome ==
  LET rec == call[1]
      u == rec.uid
  IN CASE rec.pc = "readPresence" ->
            IF presence[u] THEN call'[1].pc = "readQueue"
            ELSE call'[1].pc = "done" /\ call'[1].resp = NotOnline
       [] rec.pc = "readQueue" ->
            IF queue[u].exists
              THEN call'[1].pc = "done" /\ call'[1].resp = AlreadyWaiting
              ELSE call'[1].pc = "setQueue"
       [] rec.pc = "setQueue" ->
            /\ call'[1].pc = "done" /\ call'[1].resp = Ok([success |-> TRUE])
            /\ queue'[u].exists
       [] rec.pc = "deleteRead" ->
            IF queue[u].exists THEN call'[1].pc = "delete"
            ELSE call'[1].pc = "done" /\ call'[1].resp = Ok([success |-> TRUE])
       [] rec.pc = "delete" ->
            /\ call'[1].pc = "done" /\ call'[1].resp = Ok([success |-> TRUE])
            /\ ~queue'[u].exists
       [] OTHER -> FALSE

\* C29: queue membership does not depend on identity.  Whatever the users
\* and usernames keyspaces hold, a served step of quickMatch or
\* cancelQuickMatch is determined by the caller's presence marker and queue
\* entry, and a rejected one ends or retries the call without effect; these
\* calls leave users and usernames unchanged, and createNewUser leaves the
\* queue and the presence markers unchanged.
MembershipIgnoresIdentity ==
  /\ [][(call[1].pc \notin {"idle", "done"} /\ (Joining(call[1]) \/ Leaving(call[1])))
          => /\ UNCHANGED <<users, usernames>>
             /\ Served => QueueStepOutcome
             /\ (call'[1] # call[1] /\ call'[1].last = "rejected")
                  => /\ UNCHANGED Store
                     /\ Joining(call[1]) => call'[1].resp = Unexpected
                     /\ Leaving(call[1]) => call'[1].pc \in {"deleteRead", "done"}]_vars
  /\ [][(call'[1].pc # "idle" /\ call'[1].req.handler = "createNewUser")
          => UNCHANGED <<queue, presence>>]_vars

\* a caller without a users record joined the queue while another caller
\* has one
JoinedWithoutIdentity ==
  /\ Joining(call[1])
  /\ call[1].pc = "done"
  /\ call[1].resp = Ok([success |-> TRUE])
  /\ ~users[call[1].uid].exists
  /\ \E v \in Uids : users[v].exists
  /\ queue[call[1].uid].exists

\* the errors the handlers and the gate throw as HttpsError themselves
ClassifiedErrors ==
  {HttpsError("failed-precondition", "App Check verification failed"),
   HttpsError("unauthenticated", "Authentication required"),
   HttpsError("internal", "Failed to retrieve user information"),
   HttpsError("failed-precondition", "use a verified email address to continue"),
   HttpsError("invalid-argument", "username is required and must be a string"),
   HttpsError("invalid-argument", "username rules failed"),
   HttpsError("already-exists", "user already exists"),
   HttpsError("already-exists", "username already taken"),
   HttpsError("internal", "Something is wrong"),
   HttpsError("internal", "Something is Wrong"),
   NotOnline, AlreadyWaiting}
  \cup {HttpsErrorWith("already-exists", "username ${username} already taken", n) :
          n \in Names}

\* the store calls of createNewUser and quickMatch that lie outside a retry
\* loop
OutsideRetryLoops == {"readUser", "readUsername", "readPresence", "readQueue", "setQueue"}

\* C30: the top-level guard of createNewUser and quickMatch.  A store call
\* outside the retry loops that rejects ends the call in that step with
\* internal "An unexpected error occurred" and no store change; every error
\* these handlers end with is that one or an HttpsError thrown by the
\* handler or the gate, code and message as thrown.
TopLevelGuard ==
  /\ [](LET rec == call[1]
        IN (rec.pc = "done" /\ rec.req.handler \in {"createNewUser", "quickMatch"}
              /\ rec.resp.code # "ok")
             => /\ rec.resp \in ClassifiedErrors
                                  \cup {HttpsError("internal", "An unexpected error occurred")}
                /\ (rec.last = "rejected" /\ rec.attempt = 0)
                     => rec.resp = HttpsError("internal", "An unexpected error occurred")
                /\ GateRejects(rec.req) => rec.resp \in ClassifiedErrors)
  /\ [][(/\ call[1].pc \in OutsideRetryLoops
         /\ call'[1] # call[1]
         /\ call'[1].last = "rejected")
          => /\ call'[1].pc = "done"
             /\ call'[1].resp = HttpsError("internal", "An unexpected error occurred")
             /\ UNCHANGED Store]_vars

\* the write of an online caller's entry was rejected by the store
QueueWriteFailed ==
  /\ Joining(call[1])
  /\ call[1].pc = "done"
  /\ call[1].last = "rejected"
  /\ <<"write", "queue">> \in call[1].touched
  /\ call[1].resp = HttpsError("internal", "An unexpected error occurred")
  /\ ~queue[call[1].uid].exists

\* the outcome category of a finished call
Category(rec) ==
  IF rec.resp.code \in {"ok", "invalid-argument", "already-exists"}
    THEN rec.resp.code
    ELSE "other"

\* the outcome category both implementations are to give a call that passed
\* the gate: from the request and the two records the call found at
\* invocation
ExpectedCategory(rec) ==
  IF ~WellFormed(rec.req.data) THEN "invalid-argument"
  ELSE IF rec.member \/ rec.taken THEN "already-exists"
  ELSE "ok"

\* C31: the two implementations agree.  With one call at a time and no store
\* call of the call rejected, a createNewUser call that passes the gate of
\* both implementations ends in the category given by the request and the
\* store at invocation alone, the same under either implementation; on
\* success users/{uid} carries the username and the username has its
\* record, and otherwise both keyspaces hold the keys they held before.
ImplementationsAgree ==
  LET rec == call[1]
      name == Trim(rec.req.data.value)
  IN (/\ rec.pc = "done"
      /\ rec.req.handler = "createNewUser"
      /\ rec.req.app
      /\ ~GateRejects(rec.req)
      /\ ~rec.faults)
       => /\ Category(rec) = ExpectedCategory(rec)
          /\ Category(rec) = "ok"
               => /\ users[rec.uid].exists
                  /\ users[rec.uid].username = name
                  /\ usernames[name].exists
                  /\ \A v \in Uids \ {rec.uid} :
                       users[v].exists => users[v].username # name
          /\ (Category(rec) # "ok" /\ WellFormed(rec.req.data))
               => /\ users[rec.uid].exists = rec.member
                  /\ usernames[name].exists = rec.taken

\* under the Realtime Database implementation a call found the username
\* another caller had registered, and was turned away
SecondCallerTurnedAway ==
  /\ strategy = "A"
  /\ call[1].pc = "done"
  /\ call[1].req.app
  /\ ~call[1].faults
  /\ call[1].taken /\ ~call[1].member
  /\ Category(call[1]) = "already-exists"
  /\ \E v \in Uids \ {call[1].uid} :
       users[v].exists /\ users[v].username = call[1].username

\* C32 as stated: when the client has followed nextCursor to the end, the
\* pages together hold every item of the collection exactly once, in
\* createdAt-descending then id-descending order.
PaginationComplete ==
  pager.pc = "end" => pager.seen = OrderBy(Docs(pager.items))

\* C33: all or nothing on Firestore.  A step of a createNewUser call either
\* leaves users and usernames as they are, or it is the commit, which writes
\* both records and ends the call with success; so a call that ends in an
\* error has changed neither keyspace.  No call issues a delete.
AllOrNothing ==
  /\ [](strategy = "B" =>
          \A c \in Calls :
            /\ \A k \in {"users", "usernames"} : <<"delete", k>> \notin call[c].touched
            /\ Failed(c) => (call[c].createdTimestamp = 0 /\ call[c].deletes = 0))
  /\ [][strategy = "B" =>
          \/ UNCHANGED <<users, usernames>>
          \/ \E c \in Calls :
               /\ call[c].pc = "txn"
               /\ call'[c].pc = "done"
               /\ call'[c].resp.code = "ok"
               /\ ~users[call[c].uid].exists /\ users'[call[c].uid].exists
               /\ ~usernames[call[c].username].exists
               /\ usernames'[call[c].username].exists
               /\ \A v \in Uids \ {call[c].uid} : users'[v] = users[v]
               /\ \A n \in Names \ {call[c].username} : usernames'[n] = usernames[n]]_vars

\* a Firestore call gave up after three rejected transactions, and neither
\* its users record nor its username exists
FailedWithoutTrace ==
  /\ strategy = "B"
  /\ \E c \in Calls :
       /\ Failed(c)
       /\ call[c].resp = HttpsError("internal", "Something is wrong")
       /\ call[c].txns = 3
       /\ ~users[call[c].uid].exists
       /\ ~usernames[call[c].username].exists

\* C34: order of the two writes on the Realtime Database.  A call issues a
\* transaction on users/{uid} only after its own transaction on
\* usernames/{u} has committed; a call that failed in the username phase has
\* issued none; and no step of either implementation deletes or changes an
\* existing users record.
UsernameBeforeUser ==
  /\ [](strategy = "A" =>
          \A c \in Calls :
            LET rec == call[c]
            IN /\ (rec.pc \in {"userTxn", "cleanup"} \/ <<"txn", "users">> \in rec.touched)
                    => /\ <<"txn", "usernames">> \in rec.touched
                       /\ rec.createdTimestamp # 0
               /\ (InUsernameLoop(c) \/ rec.pc \in {"readUser", "readUsername"})
                    => <<"txn", "users">> \notin rec.touched
               /\ (Done(c) /\ rec.createdTimestamp = 0)
                    => <<"txn", "users">> \notin rec.touched)
  /\ [][\A c \in Calls :
          (strategy = "A" /\ call[c].pc # "userTxn" /\ call'[c].pc = "userTxn")
            => /\ call[c].pc = "usernameTxn"
               /\ ~usernames[call[c].username].exists
               /\ usernames'[call[c].username].exists
               /\ call'[c].createdTimestamp = usernames'[call[c].username].created_at]_vars
  /\ [][\A u \in Uids : users[u].exists => users'[u] = users[u]]_vars

\* a call has reserved its username and has not yet asked for its users
\* record
BetweenTheTwoWrites ==
  /\ strategy = "A"
  /\ \E c \in Calls :
       /\ call[c].pc = "userTxn"
       /\ call[c].txns = 0
       /\ usernames[call[c].username].exists
       /\ usernames[call[c].username].created_at = call[c].createdTimestamp
       /\ ~users[call[c].uid].exists

\* C35: the cleanup is best effort.  When the remove() of the reservation
\* rejects, the call ends in that step with internal "Something is Wrong"
\* all the same, having issued exactly one delete after its 3 users
\* transactions, and the reservation stays as it was; the call has written no
\* users record.
CleanupIsBestEffort ==
  /\ [](strategy = "A" =>
          \A c \in Calls :
            /\ call[c].deletes <= 1
            /\ call[c].pc = "cleanup" => (call[c].txns = 3 /\ call[c].deletes = 0)
            /\ (Done(c) /\ call[c].deletes = 1)
                 => /\ call[c].resp = HttpsError("internal", "Something is Wrong")
                    /\ call[c].txns = 3)
  /\ [][\A c \in Calls :
          (/\ call[c].pc = "cleanup"
           /\ call'[c] # call[c]
           /\ call'[c].last = "rejected")
            => /\ call'[c].pc = "done"
               /\ call'[c].resp = HttpsError("internal", "Something is Wrong")
               /\ call'[c].deletes = 1
               /\ UNCHANGED Store
               /\ usernames'[call[c].username].exists
               /\ \A v \in Uids :
                    ~(users'[v].exists /\ users'[v].username = call[c].username)]_vars

\* the delete was refused: the reservation is still there and no users record
\* carries the username
OrphanReservation ==
  /\ strategy = "A"
  /\ \E c \in Calls :
       /\ Done(c)
       /\ call[c].resp = HttpsError("internal", "Something is Wrong")
       /\ call[c].last = "rejected"
       /\ call[c].deletes = 1
       /\ usernames[call[c].username].exists
       /\ usernames[call[c].username].created_at = call[c].createdTimestamp
       /\ \A v \in Uids : ~(users[v].exists /\ users[v].username = call[c].username)
       /\ \A d \in Calls : call[d].pc \in {"idle", "done"}

\* C36: under strategy A, with calls of the same or of different callers for
\* the same or for different usernames interleaved in any way, the username of
\* every existing users record has an existing reservation; the cleanup of a
\* call removes only the reservation this call has committed, and never one
\* that a users record refers to.
CleanupRemovesOwnReservation ==
  /\ [](strategy = "A" =>
          \A v \in Uids : users[v].exists => usernames[users[v].username].exists)
  /\ [][\A c \in Calls : \A n \in Names :
          (/\ strategy = "A"
           /\ call'[c] # call[c]
           /\ usernames[n].exists
           /\ ~usernames'[n].exists)
            => /\ call[c].pc = "cleanup"
               /\ n = call[c].username
               /\ usernames[n].created_at = call[c].createdTimestamp
               /\ \A v \in Uids : ~(users[v].exists /\ users[v].username = n)
               /\ \A d \in Calls \ {c} :
                    ~(/\ call[d].username = n
                      /\ call[d].createdTimestamp # 0
                      /\ call[d].deletes = 0)]_vars

\* two calls of one caller for different usernames: one has created the users
\* record, the other has removed its own reservation
LoserCleanedUp ==
  /\ strategy = "A"
  /\ \E c, d \in Calls :
       /\ c # d
       /\ call[c].uid = call[d].uid
       /\ call[c].username # call[d].username
       /\ Done(c) /\ Succeeded(c)
       /\ Done(d) /\ call[d].deletes = 1 /\ call[d].last = "returned"
       /\ users[call[c].uid].exists
       /\ users[call[c].uid].username = call[c].username
       /\ usernames[call[c].username].exists
       /\ ~usernames[call[d].username].exists

\* a reservation without a users record that carries its username
Orphan(n) ==
  /\ usernames[n].exists
  /\ \A v \in Uids : ~(users[v].exists /\ users[v].username = n)

\* the cleanup of call c was issued and rejected
CleanupFailed(c) ==
  Done(c) /\ call[c].deletes = 1 /\ call[c].last = "rejected"

\* C37: under strategy A, when no createNewUser call is in flight and no
\* cleanup delete has failed, every existing reservation is the username of
\* exactly one existing users record; a reservation without a users record
\* belongs to a call that is between its two writes (or whose cleanup failed).
OrphansOnlyInFlight ==
  strategy = "A" =>
    /\ ((\A c \in Calls : call[c].pc \in {"idle", "done"} /\ ~CleanupFailed(c))
          => \A n \in Names :
               usernames[n].exists
                 => Cardinality({v \in Uids :
                                   users[v].exists /\ users[v].username = n}) = 1)
    /\ \A n \in Names :
         Orphan(n)
           => \E c \in Calls :
                /\ call[c].username = n
                /\ call[c].createdTimestamp = usernames[n].created_at
                /\ call[c].pc \in {"userTxn", "cleanup"} \/ CleanupFailed(c)

\* every call has ended, one of them after a cleanup that succeeded, and the
\* only reservation left is the one of the users record
QuietAfterCleanup ==
  /\ strategy = "A"
  /\ \A c \in Calls : Done(c)
  /\ \E c \in Calls :
       /\ call[c].deletes = 1
       /\ call[c].last = "returned"
       /\ call[c].txns = 3
       /\ ~usernames[call[c].username].exists
  /\ \E n \in Names : usernames[n].exists
  /\ \A n \in Names : ~Orphan(n)

\* C38: cancelQuickMatch reads the caller's entry at the start of every
\* attempt: a call about to read has issued one read per earlier attempt, and
\* past the read of an attempt it has issued as many reads as attempts.  When
\* a delete has failed as contended and the entry is gone at the read of the
\* next attempt (the match consumer took it), the call returns success at
\* that read, issues no further delete and leaves the store alone.
LeaveRereadsEveryAttempt ==
  /\ [](LET rec == call[1]
        IN Leaving(rec) =>
             /\ rec.pc = "deleteRead" => rec.reads = rec.attempt - 1
             /\ rec.pc \in {"delete", "done"} => rec.reads = rec.attempt
             /\ rec.pc = "delete" => rec.deletes < rec.reads)
  /\ [][(/\ call[1].pc = "deleteRead"
         /\ call[1].attempt > 1
         /\ call[1].deletes >= 1
         /\ call'[1] # call[1]
         /\ call'[1].last = "returned"
         /\ ~queue[call[1].uid].exists)
          => /\ Contended(call[1].error)
             /\ call'[1].pc = "done"
             /\ call'[1].deleted = "true"
             /\ call'[1].resp = Ok([success |-> TRUE])
             /\ call'[1].reads = call[1].attempt
             /\ call'[1].deletes = call[1].deletes
             /\ call'[1].sleeps = call[1].sleeps
             /\ UNCHANGED Store]_vars

\* the first delete was refused, the entry was consumed during the sleep, and
\* the second read ended the call
ConsumedWhileWaiting ==
  /\ Leaving(call[1])
  /\ call[1].pc = "done"
  /\ call[1].deleted = "true"
  /\ call[1].attempt = 2
  /\ call[1].reads = 2
  /\ call[1].deletes = 1
  /\ call[1].sleeps = 1
  /\ call[1].last = "returned"
  /\ ~queue[call[1].uid].exists

\* C39: cancelQuickMatch stops at the first delete that succeeds.  The step
\* of a served delete ends the call with success, without a sleep, and leaves
\* the caller without an entry.  A call whose every read was served and whose
\* last delete succeeded after k refused ones (k in 0..9) has issued k+1
\* deletes and slept k times, each refusal was retried as contended, and the
\* caller's entry is absent while the call's result stands.
LeaveStopsAtFirstSuccess ==
  /\ [](LET rec == call[1]
        IN (/\ Leaving(rec)
            /\ rec.pc = "done"
            /\ rec.deleted = "true"
            /\ rec.deletes = rec.reads)
             => /\ rec.deletes \in 1..deleteMaxRetries
                /\ rec.attempt = rec.deletes
                /\ rec.sleeps = rec.deletes - 1
                /\ rec.waited = retryDelayMs * (rec.deletes - 1)
                /\ rec.deletes > 1 => Contended(rec.error)
                /\ rec.last = "returned"
                /\ ~queue[rec.uid].exists)
  /\ [][(/\ call[1].pc = "delete"
         /\ call'[1] # call[1]
         /\ call'[1].last = "returned")
          => /\ call'[1].pc = "done"
             /\ call'[1].deleted = "true"
             /\ call'[1].resp = Ok([success |-> TRUE])
             /\ call'[1].deletes = call[1].deletes + 1
             /\ call'[1].reads = call[1].reads
             /\ call'[1].sleeps = call[1].sleeps
             /\ ~queue'[call[1].uid].exists]_vars

\* nine deletes were refused as contended and the tenth succeeded
TenthDeleteSucceeded ==
  /\ Leaving(call[1])
  /\ call[1].pc = "done"
  /\ call[1].deleted = "true"
  /\ call[1].reads = 10
  /\ call[1].deletes = 10
  /\ call[1].sleeps = 9
  /\ call[1].last = "returned"
  /\ ~queue[call[1].uid].exists

====
